---- MODULE Spec2Model ----
(***************************************************************************)
(* A model of the nodes7 endpoint (src/src/s7endpoint.js) and of the parts *)
(* of the item group (src/package.json, second half: s7itemGroup.js) that  *)
(* call into it.                                                           *)
(*                                                                         *)
(* The endpoint is single threaded: every handler (a public method, a      *)
(* timer callback, a promise reaction, an event listener) runs to its end  *)
(* before the next one starts.  One action of the model is one such        *)
(* handler, with every private method it calls.  The private methods are   *)
(* operators from a record of the fields they read and write to the record *)
(* after the call.                                                         *)
(***************************************************************************)
EXTENDS Integers, Sequences, FiniteSets, TLC

VARIABLES
    _autoReconnect,     \* opts.autoReconnect, fixed by the constructor
    customTransport,    \* whether opts.customTransport was supplied
    _connectionState,   \* this._connectionState
    _connection,        \* this._connection (an S7Connection or null)
    _transport,         \* this._transport (a Duplex or null)
    _pduSize,           \* this._pduSize
    _reconnectTimer,    \* TRUE while the timeout behind this._reconnectTimer is pending
    timeouts,           \* the reconnection timeouts that are set and have neither fired nor been cleared
    _shouldConnect,     \* this._shouldConnect
    race,               \* the Promise.race of the latest _connect: "none" or "pending"
    staleRaces,         \* races of earlier _connect calls that are still pending
    staleTransports,    \* destroyed transports, listeners attached, 'close' not yet emitted
    emitted,            \* the events the last handler emitted, in order
    last,               \* the last handler that ran and what it answered
    disconnectCalled,   \* the user has called disconnect() at least once
    groupDestroyed,     \* S7ItemGroup.destroy() has run (its _endpoint is null)
    call,               \* the readArea / writeArea call followed job by job
    _items,             \* S7ItemGroup._items, in the order of insertion
    _readPackets,       \* S7ItemGroup._readPackets (the cached plan or null)
    _skipOptimization,  \* S7ItemGroup._skipOptimization
    _optimizationGap,   \* S7ItemGroup._optimizationGap
    loop,               \* a _prepareReadPackets call followed pass by pass
    planned,            \* the plan last built from the present items and PDU size
    readCall,           \* the readAllItems call followed job by job
    disconnectPromise,  \* the promises of the disconnect() calls that wait for an event
    jobTimedOut         \* the S7Connection emitted 'timeout' and no 'connect' has followed

vars == <<_autoReconnect, customTransport, _connectionState, _connection,
          _transport, _pduSize, _reconnectTimer, timeouts, _shouldConnect, race,
          staleRaces, staleTransports, emitted, last, disconnectCalled,
          groupDestroyed, call, _items, _readPackets, _skipOptimization,
          _optimizationGap, loop, planned, readCall, disconnectPromise, jobTimedOut>>

(***************************************************************************)
(* Constants of the program                                                *)
(***************************************************************************)
CONN_DISCONNECTED == 0
CONN_CONNECTING == 1
CONN_CONNECTED == 2
CONN_DISCONNECTING == 3

\* this._pduSize = null: no PDU size negotiated yet
PDU_NULL == 0

(***************************************************************************)
(* Bounds of the model                                                     *)
(***************************************************************************)
\* superseded transports / races remembered at the same time (more are dropped)
MaxStale == 1
\* most bytes asked of one readArea call that is followed job by job
MaxReadLen == 27
\* most bytes handed to one writeArea call that is followed job by job
MaxWriteLen == 7

\* the values of opts.autoReconnect tried: disabled, and the default delay
AutoReconnectValues == {0, 5000}
\* the PDU sizes a PLC may negotiate
PduSizes == {240, 480}
\* the byte counts asked of readArea / writeArea in the lifecycle model
CallLengths == {1, 500}
\* the PDU sizes of the endpoint whose area calls are followed job by job
AreaPduSizes == {30, 31}
\* the start addresses of those calls
AreaAddresses == {0, 100}

Min(a, b) == IF a <= b THEN a ELSE b

(***************************************************************************)
(* Objects                                                                 *)
(***************************************************************************)
\* this._connection = null
NullConnection ==
    [isNull |-> TRUE, pduSize |-> PDU_NULL, connected |-> FALSE,
     nextReference |-> 1, outstanding |-> <<>>, pending |-> <<>>,
     submitted |-> 0, jobs |-> <<>>, dispatched |-> <<>>, completed |-> {}]
\* new S7Connection(transport, opts): nothing negotiated, 'connect' not yet
\* emitted, no job issued
NewConnection ==
    [isNull |-> FALSE, pduSize |-> PDU_NULL, connected |-> FALSE,
     nextReference |-> 1, outstanding |-> <<>>, pending |-> <<>>,
     submitted |-> 0, jobs |-> <<>>, dispatched |-> <<>>, completed |-> {}]

\* this._transport = null
NullTransport == [isNull |-> TRUE, wired |-> FALSE, ended |-> FALSE, closed |-> FALSE]
\* isoOnTcp.createConnection(...): connecting, the endpoint's listeners not yet attached
NewTransport == [isNull |-> FALSE, wired |-> FALSE, ended |-> FALSE, closed |-> FALSE]

\* an event as its listeners get it: its argument, and for 'pdu-size'
\* whether the getter pduSize returns the size the event carries
Ev(name, arg, current) == [ev |-> name, arg |-> arg, current |-> current]
\* this.emit(name, arg): the listeners run inside the call
Emit(s, name, arg) ==
    [s EXCEPT !.emitted =
        Append(@, Ev(name, arg, name = "pdu-size" => s._pduSize = arg))]
Emitted(name) == \E i \in 1..Len(emitted) : emitted[i].ev = name

\* the fields a handler reads and writes
World ==
    [_connectionState |-> _connectionState, _connection |-> _connection,
     _transport |-> _transport, _pduSize |-> _pduSize,
     _reconnectTimer |-> _reconnectTimer, timeouts |-> timeouts,
     _shouldConnect |-> _shouldConnect,
     race |-> race, staleRaces |-> staleRaces,
     staleTransports |-> staleTransports, emitted |-> <<>>]

Commit(s) ==
    /\ _connectionState' = s._connectionState
    /\ _connection' = s._connection
    /\ _transport' = s._transport
    /\ _pduSize' = s._pduSize
    /\ _reconnectTimer' = s._reconnectTimer
    /\ timeouts' = s.timeouts
    /\ _shouldConnect' = s._shouldConnect
    /\ race' = s.race
    /\ staleRaces' = s.staleRaces
    /\ staleTransports' = s.staleTransports
    /\ emitted' = s.emitted

\* what is recorded of a handler: its name, the state it started in, whether
\* a reconnect timer was pending then, what it answered, the jobs it
\* submitted and, for writeItems, its tags and its argument counts
Last(op, err, jobs) ==
    [op |-> op, from |-> _connectionState, err |-> err, jobs |-> jobs,
     tags |-> 0, values |-> 0, args |-> <<>>, timer |-> _reconnectTimer]

(***************************************************************************)
(* Private methods of S7Endpoint                                           *)
(***************************************************************************)
\* _initParams(): the fields after construction, before any _connect
_initParams ==
    [_connectionState |-> CONN_DISCONNECTED, _connection |-> NullConnection,
     _transport |-> NullTransport, _pduSize |-> PDU_NULL,
     _reconnectTimer |-> FALSE, timeouts |-> 0, _shouldConnect |-> FALSE,
     race |-> "none", staleRaces |-> 0, staleTransports |-> 0, emitted |-> <<>>]

\* clearTimeout(this._reconnectTimer): the timeout behind the handle, if it
\* is still pending, is taken back
clearTimeout(s) ==
    [s EXCEPT !._reconnectTimer = FALSE,
              !.timeouts = IF s._reconnectTimer THEN @ - 1 ELSE @]

\* this._reconnectTimer = setTimeout(...): one more timeout is pending, and
\* the handle is the new one's
setTimeout(s) ==
    [s EXCEPT !._reconnectTimer = TRUE, !.timeouts = @ + 1]

\* a plausible slip: the timeout is set whatever autoReconnect is
_scheduleReconnection_always(s) == setTimeout(clearTimeout(s))

\* a plausible slip: the timeout before is not cleared
_scheduleReconnection_noClear(s) ==
    IF _autoReconnect > 0 THEN setTimeout(s) ELSE s

\* clearTimeout, then a new timeout when autoReconnect > 0
_scheduleReconnection(s) ==
    IF _autoReconnect > 0 THEN setTimeout(clearTimeout(s)) ELSE clearTimeout(s)

\* a plausible slip: the connection is torn down without arming the timer
_destroyConnection_noSchedule(s) ==
    [s EXCEPT !._connectionState = CONN_DISCONNECTED, !._connection = NullConnection]

\* a plausible slip: the S7Connection is destroyed and the state is left
_destroyConnection_keepsState(s) ==
    LET s1 == IF s._shouldConnect THEN _scheduleReconnection(s) ELSE s
    IN  IF s1._connection.isNull THEN s1
        ELSE [s1 EXCEPT !._connection = NullConnection]

\* schedules the reconnection, resets the state, destroys the S7Connection
_destroyConnection(s) ==
    LET s1 == IF s._shouldConnect THEN _scheduleReconnection(s) ELSE s
        s2 == [s1 EXCEPT !._connectionState = CONN_DISCONNECTED]
    IN  IF s2._connection.isNull THEN s2
        ELSE [s2 EXCEPT !._connection = NullConnection]

\* destroys the connection, then the transport; a destroyed stream whose
\* listeners are attached emits 'close' later, unless it already has
_destroyTransport(s) ==
    LET s1 == _destroyConnection(s)
    IN  IF s1._transport.isNull THEN s1
        ELSE Emit([s1 EXCEPT
                     !._transport = NullTransport,
                     !.staleTransports =
                         IF s1._transport.wired /\ ~s1._transport.closed
                         THEN Min(@ + 1, MaxStale) ELSE @],
                  "disconnect", 0)

\* sets the state and calls transport.end()
_closeTransport(s) ==
    LET s1 == [s EXCEPT !._connectionState = CONN_DISCONNECTED]
    IN  IF s1._transport.isNull THEN s1
        ELSE [s1 EXCEPT !._transport.ended = TRUE]

_disconnect(s) ==
    _closeTransport(_destroyConnection(
        [s EXCEPT !._connectionState = CONN_DISCONNECTED]))

_onTransportClose(s) == _destroyTransport(s)

_onTransportEnd(s) == _destroyTransport(s)

\* a plausible slip: a timed-out job is left to the caller
_onConnectionTimeout_ignored(s) == s

_onConnectionTimeout(s) == _disconnect(s)

_onTransportError(s) == Emit(_destroyTransport(s), "error", 0)

_onConnectionError(s) == Emit(_disconnect(s), "error", 0)

\* the default factory assigns this._transport at once; a custom factory's
\* stream is only the value of its promise
_createIsoTransport(s) == [s EXCEPT !._transport = NewTransport]

\* this._getTransport() raced against the 10 s timeout; the race of an
\* earlier _connect that is still pending stays pending
_getTransport(s) ==
    LET s1 == [s EXCEPT !.staleRaces =
                            IF s.race = "pending" THEN Min(@ + 1, MaxStale) ELSE @,
                        !.race = "pending"]
    IN  IF customTransport THEN s1 ELSE _createIsoTransport(s1)

\* a plausible slip: the attempt starts without the state being set
_connect_noState(s) ==
    LET s0 == clearTimeout(s)
    IN  IF s0._connectionState > CONN_DISCONNECTED THEN s0
        ELSE _getTransport(Emit(_destroyTransport(_destroyConnection(s0)),
                                "connecting", 0))

\* a plausible slip: only a Connected endpoint is left alone
_connect_whileConnecting(s) ==
    LET s0 == clearTimeout(s)
    IN  IF s0._connectionState > CONN_CONNECTING THEN s0
        ELSE LET s1 == _destroyTransport(_destroyConnection(s0))
                 s2 == Emit(s1, "connecting", 0)
                 s3 == [s2 EXCEPT !._connectionState = CONN_CONNECTING]
             IN  _getTransport(s3)

_connect(s) ==
    LET s0 == clearTimeout(s)
    IN  IF s0._connectionState > CONN_DISCONNECTED THEN s0
        ELSE LET s1 == _destroyTransport(_destroyConnection(s0))
                 \* 'connecting' is emitted on the next tick
                 s2 == Emit(s1, "connecting", 0)
                 s3 == [s2 EXCEPT !._connectionState = CONN_CONNECTING]
             IN  _getTransport(s3)

_createS7Connection(s) == [s EXCEPT !._connection = NewConnection]

\* the reaction to the race being fulfilled: it reads this._transport, not
\* the stream the promise was fulfilled with; a null there throws, and the
\* catch hands the TypeError to _onTransportError
raceThen(s) ==
    IF s._transport.isNull THEN _onTransportError(s)
    ELSE _createS7Connection([s EXCEPT !._transport.wired = TRUE])

\* a plausible slip: 'pdu-size' is never emitted
_onConnectionConnected_noPduSize(s) ==
    Emit([clearTimeout(s) EXCEPT
                   !._pduSize = s._connection.pduSize,
                   !._connectionState = CONN_CONNECTED],
         "connect", 0)

_onConnectionConnected(s) ==
    LET s1 == clearTimeout(s)
        s2 == IF s1._pduSize # s1._connection.pduSize
              THEN Emit(s1, "pdu-size", s1._connection.pduSize) ELSE s1
        s3 == [s2 EXCEPT !._pduSize = s2._connection.pduSize,
                         !._connectionState = CONN_CONNECTED]
    IN  Emit(s3, "connect", 0)

(***************************************************************************)
(* Public methods of S7Endpoint: connection                                *)
(***************************************************************************)
\* what the promise of connect() does before the method returns
connectAnswer(s) ==
    IF s._connectionState = CONN_CONNECTED THEN "resolved"
    ELSE IF s._connectionState = CONN_DISCONNECTING THEN "ERR_ILLEGAL_STATE"
    ELSE "pending"

connect(s) ==
    LET s1 == [s EXCEPT !._shouldConnect = TRUE]
    IN  IF s1._connectionState = CONN_CONNECTED THEN s1
        ELSE IF s1._connectionState = CONN_DISCONNECTING THEN s1
        ELSE _connect(s1)

\* what the promise of disconnect() does before the method returns
disconnectAnswer(s) ==
    IF s._connectionState = CONN_DISCONNECTED THEN "resolved" ELSE "pending"

\* a plausible slip: the reconnect timer is left to fire
disconnect_keepsTimer(s) ==
    LET s1 == [s EXCEPT !._shouldConnect = FALSE]
    IN  IF s1._connectionState = CONN_DISCONNECTED THEN s1
        ELSE _disconnect(s1)

disconnect(s) ==
    LET s1 == [s EXCEPT !._shouldConnect = FALSE]
    IN  IF s1._connectionState = CONN_DISCONNECTED
        THEN clearTimeout(s1)
        ELSE _disconnect(s1)

\* new S7Endpoint(opts)
constructor(s) ==
    IF _autoReconnect > 0
    THEN _connect([s EXCEPT !._shouldConnect = TRUE])
    ELSE s

(***************************************************************************)
(* Protocol constants (constants.json)                                     *)
(***************************************************************************)
DATA_OK == 255
RET_INVALID_ADDRESS == 5
RET_OBJECT_NOT_FOUND == 10
TRANSPORT_BIT == 1
TRANSPORT_BYTE == 2
AREA_DB == 132
AREA_FLAGS == 131
\* db of an area that is not a data block (the argument is left undefined)
DB_UNDEFINED == 0

\* readArea subtracts 18 bytes of protocol overhead, writeArea 28, and
\* writeItems 12 plus 16 for each item
READ_OVERHEAD == 18
WRITE_OVERHEAD == 28
WRITE_ITEMS_OVERHEAD == 12
overheadPerItem == 16

(***************************************************************************)
(* Buffers and numbers as JavaScript has them                              *)
(***************************************************************************)
\* x << 3 on a 32 bit signed integer, for x >= 0: the low 29 bits of x move
\* up by three, and bit 28 of x becomes the sign
ShiftLeft3(x) ==
    LET lo == x % 536870912
    IN  IF lo >= 268435456 THEN (lo - 536870912) * 8 ELSE lo * 8

\* Buffer.slice(start, end) for start, end >= 0: the bytes start .. end-1,
\* both clamped to the length; empty when end <= start
BufferSlice(buf, start, end) ==
    SubSeq(buf, Min(start, Len(buf)) + 1, Min(end, Len(buf)))

\* Buffer.alloc(n)
BufferAlloc(n) == [i \in 1..n |-> 0]

RECURSIVE BufferConcat(_)
BufferConcat(list) ==
    IF list = <<>> THEN <<>> ELSE Head(list) \o BufferConcat(Tail(list))

NoJobs == <<>>
Rejects(kind) == [err |-> kind, jobs |-> NoJobs]

(***************************************************************************)
(* Public methods of S7Endpoint: variables and areas                       *)
(***************************************************************************)
\* the S7-ANY address of one item: a bit address unless the transport is BIT
S7AnyParam(item) ==
    [area |-> item.area, db |-> item.db, transport |-> item.transport,
     address |-> IF item.transport = TRANSPORT_BIT
                 THEN item.address ELSE ShiftLeft3(item.address),
     length |-> item.length]

\* a plausible slip: the state is not checked before the job is submitted
readVars_noCheck(s, items) ==
    [err |-> "none",
     jobs |-> << [fn |-> "ReadVar",
                  param |-> [i \in 1..Len(items) |-> S7AnyParam(items[i])],
                  data |-> <<>>] >>]

\* one ReadVar job on the S7Connection, or the rejection
readVars(s, items) ==
    IF s._connectionState # CONN_CONNECTED THEN Rejects("ERR_NOT_CONNECTED")
    ELSE IF s._connection.isNull THEN Rejects("TypeError")
    ELSE [err |-> "none",
          jobs |-> << [fn |-> "ReadVar",
                       param |-> [i \in 1..Len(items) |-> S7AnyParam(items[i])],
                       data |-> <<>>] >>]

\* one WriteVar job on the S7Connection, or the rejection
writeVars(s, items) ==
    IF s._connectionState # CONN_CONNECTED THEN Rejects("ERR_NOT_CONNECTED")
    ELSE IF s._connection.isNull THEN Rejects("TypeError")
    ELSE [err |-> "none",
          jobs |-> << [fn |-> "WriteVar",
                       param |-> [i \in 1..Len(items) |-> S7AnyParam(items[i])],
                       data |-> [i \in 1..Len(items) |->
                                   [transportSize |-> items[i].dataTransport,
                                    data |-> items[i].data]]] >>]

\* the calls of a loop, made one after the other in the same tick: the jobs
\* of all of them, or the first rejection (every promise of the list is
\* awaited together)
RECURSIVE AllJobs(_)
AllJobs(calls) ==
    IF calls = <<>> THEN [err |-> "none", jobs |-> NoJobs]
    ELSE LET rest == AllJobs(Tail(calls))
         IN  IF Head(calls).err # "none" THEN Rejects(Head(calls).err)
             ELSE IF rest.err # "none" THEN Rejects(rest.err)
             ELSE [err |-> "none", jobs |-> Head(calls).jobs \o rest.jobs]

\* the loop of readArea: one single-item list for each window of maxPayload bytes
RECURSIVE readAreaItems(_, _, _, _, _, _)
readAreaItems(area, address, length, db, maxPayload, ptr) ==
    IF ptr < length
    THEN << << [area |-> area, db |-> db, address |-> address + ptr,
                transport |-> TRANSPORT_BYTE,
                length |-> Min(length - ptr, maxPayload)] >> >>
         \o readAreaItems(area, address, length, db, maxPayload, ptr + maxPayload)
    ELSE <<>>

\* readArea up to the await: the ReadVar jobs submitted, or the rejection
readArea(s, area, address, length, db) ==
    IF s._connectionState # CONN_CONNECTED THEN Rejects("ERR_NOT_CONNECTED")
    ELSE LET maxPayload == s._pduSize - READ_OVERHEAD
             items == readAreaItems(area, address, length, db, maxPayload, 0)
         IN  AllJobs([i \in 1..Len(items) |-> readVars(s, items[i])])

\* the loop of writeArea: chunk i is data.slice(ptr, min(dataLength - ptr, maxPayload))
RECURSIVE writeAreaItems(_, _, _, _, _, _)
writeAreaItems(area, address, data, db, maxPayload, ptr) ==
    IF ptr < Len(data)
    THEN LET chunk == BufferSlice(data, ptr, Min(Len(data) - ptr, maxPayload))
         IN  << << [area |-> area, db |-> db, address |-> address + ptr,
                    transport |-> TRANSPORT_BYTE, dataTransport |-> "BBYTE",
                    data |-> chunk, length |-> Len(chunk)] >> >>
             \o writeAreaItems(area, address, data, db, maxPayload, ptr + maxPayload)
    ELSE <<>>

\* writeArea up to the await: the WriteVar jobs submitted, or the rejection
writeArea(s, area, address, data, db) ==
    IF s._connectionState # CONN_CONNECTED THEN Rejects("ERR_NOT_CONNECTED")
    ELSE LET maxPayload == s._pduSize - WRITE_OVERHEAD
             items == writeAreaItems(area, address, data, db, maxPayload, 0)
         IN  AllJobs([i \in 1..Len(items) |-> writeVars(s, items[i])])

(***************************************************************************)
(* readArea / writeArea after the await                                    *)
(***************************************************************************)
\* the return codes a PLC answers with
ReturnCodes == {RET_INVALID_ADDRESS, RET_OBJECT_NOT_FOUND, DATA_OK}

\* the byte the PLC holds at a byte address
PlcByte(a) == (3 * a + 1) % 256

\* the buffer handed to writeArea: n bytes, all different
DataOf(n) == [k \in 1..n |-> k]

\* what the S7Connection resolves a job with: one result for each item
\* asked, carrying the bytes of the window when a read went well
PlcAnswer(job, code) ==
    [k \in 1..Len(job.param) |->
        [returnCode |-> code,
         data |-> IF job.fn = "ReadVar" /\ code = DATA_OK
                  THEN [n \in 1..job.param[k].length |->
                           PlcByte((job.param[k].address \div 8) + n - 1)]
                  ELSE <<>>]]

\* no call is being followed
NoCall ==
    [op |-> "none", address |-> 0, length |-> 0, data |-> <<>>,
     jobs |-> <<>>, results |-> <<>>, arrived |-> <<>>,
     outcome |-> "none", kind |-> "none", code |-> 0, value |-> <<>>]

\* a plausible slip: the results are taken in the order they arrived
PromiseAll_arrivalOrder(c) ==
    [k \in 1..Len(c.arrived) |-> c.results[c.arrived[k]]]

\* Promise.all(requests), all fulfilled: the results in the order of the requests
PromiseAll(c) == c.results

Settled(outcome, kind, code, value) ==
    [outcome |-> outcome, kind |-> kind, code |-> code, value |-> value]

\* a plausible slip: a window that failed is left out of the answer
RECURSIVE areaResults_skipFailed(_, _, _)
areaResults_skipFailed(results, data, reading) ==
    IF results = <<>>
    THEN Settled("resolved", "none", 0, IF reading THEN BufferConcat(data) ELSE <<>>)
    ELSE areaResults_skipFailed(
             Tail(results),
             IF Head(results)[1].returnCode # DATA_OK THEN data
             ELSE Append(data, Head(results)[1].data),
             reading)

\* the loop over the results: the first bad one throws, else the data of
\* all of them is concatenated (readArea) or nothing is returned (writeArea)
RECURSIVE areaResults(_, _, _)
areaResults(results, data, reading) ==
    IF results = <<>>
    THEN Settled("resolved", "none", 0, IF reading THEN BufferConcat(data) ELSE <<>>)
    ELSE LET res == Head(results)
         IN  IF Len(res) > 1
             THEN Settled("rejected", "ERR_UNEXPECTED_RESPONSE", 0, <<>>)
             ELSE IF res[1].returnCode # DATA_OK
             THEN Settled("rejected", "returnCode", res[1].returnCode, <<>>)
             ELSE areaResults(Tail(results), Append(data, res[1].data), reading)

(***************************************************************************)
(* S7Item, and the sizes of the read plan                                   *)
(***************************************************************************)
AREA_INPUTS == 129
AREA_OUTPUTS == 130
AREA_TIMER == 29

\* the sizes _prepareReadPackets reckons with
reqHeaderSize == 12
resHeaderSize == 14
reqPartSize == 12
resPartSize == 4

Abs(x) == IF x < 0 THEN 0 - x ELSE x
Max(a, b) == IF a >= b THEN a ELSE b

\* an S7Item as the group sees it: a name and the address parsed from it
\* (a run of bytes: nothing is added to fill a word, and it is written as bytes)
S7Item(name, addrtype, areaCode, dbNumber, offset, byteLength) ==
    [name |-> name, addrtype |-> addrtype, areaCode |-> areaCode,
     dbNumber |-> dbNumber, offset |-> offset, bitOffset |-> 0,
     byteLength |-> byteLength, readTransportCode |-> TRANSPORT_BYTE,
     writeTransportCode |-> "BBYTE", byteLengthWithFill |-> byteLength]

(***************************************************************************)
(* S7ItemGroup.writeItems                                                  *)
(***************************************************************************)
\* the tags written in the model, as S7Item describes them: two bytes of a
\* data block, one bit of it, and a block of 300 bytes
WordTag == S7Item("DB1,WORD0", "DB", AREA_DB, 1, 0, 2)

BitTag ==
    [S7Item("DB1,X2.3", "DB", AREA_DB, 1, 2, 1) EXCEPT
        !.bitOffset = 3, !.writeTransportCode = "BBIT"]

BlockTag == S7Item("MB10", "M", AREA_FLAGS, DB_UNDEFINED, 10, 300)

\* the lists of tags handed to writeItems in the lifecycle model
WriteTagLists ==
    {<<>>, <<WordTag>>, <<WordTag, BitTag>>, <<BlockTag>>, <<WordTag, BlockTag>>}

\* get isConnected
isConnected(s) == s._connectionState = CONN_CONNECTED

\* a tag that is not a string, or a string that is no address
NotATag == S7Item("", "none", 0, 0, 0, 0)

\* this._items.get(tag), or a new S7Item of the translated tag: a list of
\* no item (the tag cannot be made an item) or one
writeItem(grp, tag) ==
    IF \E i \in 1..Len(grp._items) : grp._items[i].name = tag.name
    THEN <<grp._items[CHOOSE i \in 1..Len(grp._items) : grp._items[i].name = tag.name]>>
    ELSE IF tag = NotATag THEN <<>>
    ELSE <<tag>>

\* the request of one item
writeRequest(item) ==
    LET buf == BufferAlloc(item.byteLengthWithFill)
        bitAddr == item.writeTransportCode = "BBIT"
    IN  [area |-> item.areaCode, db |-> item.dbNumber,
         address |-> IF bitAddr THEN ShiftLeft3(item.offset) + item.bitOffset
                     ELSE item.offset,
         transport |-> IF bitAddr THEN TRANSPORT_BIT ELSE item.readTransportCode,
         dataTransport |-> item.writeTransportCode,
         data |-> buf, length |-> Len(buf)]

\* a plausible slip: the size of an item is not tested against the payload
RECURSIVE writeItemsLoop_anySize(_, _, _, _, _, _)
writeItemsLoop_anySize(grp, tags, reqPackets, reqItems, curRequestLength, maxPayloadSize) ==
    IF tags = <<>>
    THEN [err |-> "none", packets |-> Append(reqPackets, reqItems)]
    ELSE IF writeItem(grp, Head(tags)) = <<>>
    THEN [err |-> "ERR_INVALID_ARGUMENT", packets |-> <<>>]
    ELSE LET item == writeItem(grp, Head(tags))[1]
             reqItemLength == overheadPerItem + item.byteLengthWithFill
             flush == curRequestLength + reqItemLength > maxPayloadSize
         IN  writeItemsLoop_anySize(
                 grp, Tail(tags),
                 IF flush THEN Append(reqPackets, reqItems) ELSE reqPackets,
                 Append(IF flush THEN <<>> ELSE reqItems, writeRequest(item)),
                 (IF flush THEN 0 ELSE curRequestLength) + reqItemLength,
                 maxPayloadSize)

\* a plausible slip: the packet is closed after the item that overfills it
RECURSIVE writeItemsLoop_lateFlush(_, _, _, _, _, _)
writeItemsLoop_lateFlush(grp, tags, reqPackets, reqItems, curRequestLength, maxPayloadSize) ==
    IF tags = <<>>
    THEN [err |-> "none", packets |-> Append(reqPackets, reqItems)]
    ELSE IF writeItem(grp, Head(tags)) = <<>>
    THEN [err |-> "ERR_INVALID_ARGUMENT", packets |-> <<>>]
    ELSE LET item == writeItem(grp, Head(tags))[1]
             reqItemLength == overheadPerItem + item.byteLengthWithFill
             flush == curRequestLength + reqItemLength > maxPayloadSize
         IN  IF reqItemLength > maxPayloadSize
             THEN [err |-> "ERR_ITEM_TOO_BIG", packets |-> <<>>]
             ELSE writeItemsLoop_lateFlush(
                      grp, Tail(tags),
                      IF flush THEN Append(reqPackets, Append(reqItems, writeRequest(item)))
                      ELSE reqPackets,
                      IF flush THEN <<>> ELSE Append(reqItems, writeRequest(item)),
                      IF flush THEN 0 ELSE curRequestLength + reqItemLength,
                      maxPayloadSize)

\* the loop over the tags: a packet is closed when the next item does not fit
RECURSIVE writeItemsLoop(_, _, _, _, _, _)
writeItemsLoop(grp, tags, reqPackets, reqItems, curRequestLength, maxPayloadSize) ==
    IF tags = <<>>
    THEN [err |-> "none", packets |-> Append(reqPackets, reqItems)]
    ELSE IF writeItem(grp, Head(tags)) = <<>>
    THEN [err |-> "ERR_INVALID_ARGUMENT", packets |-> <<>>]
    ELSE LET item == writeItem(grp, Head(tags))[1]
             reqItemLength == overheadPerItem + item.byteLengthWithFill
             flush == curRequestLength + reqItemLength > maxPayloadSize
         IN  IF reqItemLength > maxPayloadSize
             THEN [err |-> "ERR_ITEM_TOO_BIG", packets |-> <<>>]
             ELSE writeItemsLoop(
                      grp, Tail(tags),
                      IF flush THEN Append(reqPackets, reqItems) ELSE reqPackets,
                      Append(IF flush THEN <<>> ELSE reqItems, writeRequest(item)),
                      (IF flush THEN 0 ELSE curRequestLength) + reqItemLength,
                      maxPayloadSize)

\* writeItems up to the await: the WriteVar jobs submitted, or the rejection
writeItemsJobs(s, grp, tags, nValues) ==
    IF grp.destroyed THEN Rejects("Already destroyed")
    ELSE IF nValues # Len(tags) THEN Rejects("ERR_INVALID_ARGUMENT")
    ELSE IF Len(tags) = 0 THEN [err |-> "none", jobs |-> NoJobs]
    ELSE IF ~isConnected(s) THEN Rejects("ERR_NOT_CONNECTED")
    ELSE LET r == writeItemsLoop(grp, tags, <<>>, <<>>, 0,
                                 s._pduSize - WRITE_ITEMS_OVERHEAD)
         IN  IF r.err # "none" THEN Rejects(r.err)
             ELSE AllJobs([i \in 1..Len(r.packets) |-> writeVars(s, r.packets[i])])

\* a plausible slip: the items made for the tags are kept in the group
writeItems_keepsItems(s, grp, tags, nValues) ==
    [call |-> writeItemsJobs(s, grp, tags, nValues),
     grp |-> [grp EXCEPT
                !._items = IF grp.destroyed \/ tags = <<>> \/ Head(tags) = NotATag
                           THEN @ ELSE Append(@, Head(tags)),
                !._readPackets = [isNull |-> TRUE, packets |-> <<>>]]]

\* writeItems up to the await, and the group it leaves: no field of the
\* group is assigned
writeItems(s, grp, tags, nValues) ==
    [call |-> writeItemsJobs(s, grp, tags, nValues), grp |-> grp]

\* writeItems after the await: the first return code that is not DATA_OK throws
RECURSIVE writeItemsResults(_, _, _)
writeItemsResults(responses, i, j) ==
    IF i > Len(responses) THEN [outcome |-> "resolved", kind |-> "none", code |-> 0]
    ELSE IF j > Len(responses[i]) THEN writeItemsResults(responses, i + 1, 1)
    ELSE IF responses[i][j].returnCode # DATA_OK
    THEN [outcome |-> "rejected", kind |-> "returnCode",
          code |-> responses[i][j].returnCode]
    ELSE writeItemsResults(responses, i, j + 1)

(***************************************************************************)
(* S7ItemGroup: the read plan                                              *)
(***************************************************************************)
\* S7Item._getCopyBufferOffsets: the bytes of the item that lie in the
\* window, or none when the window holds no byte of the item
_getCopyBufferOffsets(item, partAddress, partLength) ==
    LET start == Max(partAddress, item.offset)
        end == Min(partAddress + partLength, item.offset + item.byteLength)
    IN  IF start >= end
        THEN [none |-> TRUE, sourceOffset |-> 0, destOffset |-> 0, byteCount |-> 0]
        ELSE [none |-> FALSE, sourceOffset |-> start - partAddress,
              destOffset |-> start - item.offset, byteCount |-> end - start]

\* the one element of a set of one: {F(v) : v \in {e}} computes e once
Only(S) == CHOOSE x \in S : TRUE

\* itemListSorter(a, b): -1, 1, or 0 where the function returns nothing
itemListSorter(a, b) ==
    IF a.areaCode < b.areaCode THEN -1
    ELSE IF a.areaCode > b.areaCode THEN 1
    ELSE IF a.addrtype = "DB" /\ a.dbNumber < b.dbNumber THEN -1
    ELSE IF a.addrtype = "DB" /\ a.dbNumber > b.dbNumber THEN 1
    ELSE IF a.offset < b.offset THEN -1
    ELSE IF a.offset > b.offset THEN 1
    ELSE IF a.bitOffset < b.bitOffset THEN -1
    ELSE IF a.bitOffset > b.bitOffset THEN 1
    ELSE IF a.byteLength > b.byteLength THEN -1
    ELSE IF a.byteLength < b.byteLength THEN 1
    ELSE 0

\* one item put into a sorted list, after the items it does not come before
SortInsert(sorted, item) ==
    LET before == {i \in 1..Len(sorted) : itemListSorter(item, sorted[i]) < 0}
        at == IF before = {} THEN Len(sorted) + 1
              ELSE CHOOSE i \in before : \A j \in before : i <= j
    IN  SubSeq(sorted, 1, at - 1) \o <<item>> \o SubSeq(sorted, at, Len(sorted))

\* items.sort(itemListSorter): Array.prototype.sort is stable
RECURSIVE SortItems(_)
SortItems(items) ==
    IF items = <<>> THEN <<>>
    ELSE Only({SortInsert(sorted, items[Len(items)]) :
                  sorted \in {SortItems(SubSeq(items, 1, Len(items) - 1))}})

\* a plausible slip: only an item that starts where the last one ends is
\* taken as near
_isOptimizable_adjacentOnly(g, a, b) ==
    /\ ~g._skipOptimization
    /\ a # <<>>
    /\ a[1].areaCode = b.areaCode
    /\ b.areaCode \in {AREA_INPUTS, AREA_OUTPUTS, AREA_FLAGS, AREA_DB}
    /\ a[1].dbNumber = b.dbNumber
    /\ b.offset - a[1].offset - a[1].byteLength = 0

\* a plausible slip: the DB numbers are not compared
_isOptimizable_anyDb(g, a, b) ==
    /\ ~g._skipOptimization
    /\ a # <<>>
    /\ a[1].areaCode = b.areaCode
    /\ b.areaCode \in {AREA_INPUTS, AREA_OUTPUTS, AREA_FLAGS, AREA_DB}
    /\ Abs(b.offset - a[1].offset - a[1].byteLength) < g._optimizationGap

\* _isOptimizable(a, b), a being a list of no item or one (lastItem)
_isOptimizable(g, a, b) ==
    /\ ~g._skipOptimization
    /\ a # <<>>
    /\ a[1].areaCode = b.areaCode
    /\ b.areaCode \in {AREA_INPUTS, AREA_OUTPUTS, AREA_FLAGS, AREA_DB}
    /\ a[1].dbNumber = b.dbNumber
    /\ Abs(b.offset - a[1].offset - a[1].byteLength) < g._optimizationGap

\* the working variables of _prepareReadPackets before the first item; the
\* current packet is the last of packets, the current part the last of it
PlanStart ==
    [packets |-> <<>>, hasPacket |-> FALSE, hasPart |-> FALSE,
     pktReqLength |-> 0, pktResLength |-> 0, lastItem |-> <<>>, steps |-> <<>>]

\* a plausible slip: a part starts at its item, not at the bytes still to place
NewPart_atItem(item, partOffset, partLength) ==
    [items |-> <<item>>, offsets |-> <<>>, area |-> item.areaCode,
     db |-> item.dbNumber, transport |-> item.readTransportCode,
     address |-> item.offset, length |-> partLength]

NewPart(item, partOffset, partLength) ==
    [items |-> <<item>>, offsets |-> <<>>, area |-> item.areaCode,
     db |-> item.dbNumber, transport |-> item.readTransportCode,
     address |-> partOffset, length |-> partLength]

\* what is recorded of one turn of the loop: the branch taken and the
\* lengths before it
PlanStep(st, branch, item, itemOffset, itemLength, complete) ==
    [branch |-> branch, item |-> item, itemOffset |-> itemOffset,
     itemLength |-> itemLength, complete |-> complete,
     hadPacket |-> st.hasPacket, lastItem |-> st.lastItem,
     pktReqLength |-> st.pktReqLength, pktResLength |-> st.pktResLength,
     packet |-> Len(st.packets),
     parts |-> IF st.packets = <<>> THEN 0 ELSE Len(st.packets[Len(st.packets)]),
     part |-> IF st.hasPart THEN st.packets[Len(st.packets)][Len(st.packets[Len(st.packets)])]
              ELSE NewPart(item, 0, 0)]

\* the current packet and part are dropped when the item is not finished
AfterTurn(st, complete) ==
    IF complete THEN st ELSE [st EXCEPT !.hasPacket = FALSE, !.hasPart = FALSE]

\* what one pass of the while loop leaves: the working variables, whether
\* the item is complete, and the bytes of it still to place
Pass(st, complete, itemLength, itemOffset, consumedItemLength) ==
    [st |-> st, complete |-> complete,
     itemLength |-> IF complete THEN itemLength ELSE itemLength - consumedItemLength,
     itemOffset |-> IF complete THEN itemOffset ELSE itemOffset + consumedItemLength]

\* one pass of the while loop over an item: same part, new part or new packet
placePass(g, st, item, itemLength, itemOffset) ==
    LET maxPayloadSize == g.pduSize - READ_OVERHEAD
        remainingLength == maxPayloadSize - st.pktResLength
        minRequiredLength == Min(itemLength, g._optimizationGap)
        p == Len(st.packets)
        q == IF p > 0 THEN Len(st.packets[p]) ELSE 0
    IN  IF /\ st.hasPacket /\ st.hasPart
           /\ _isOptimizable(g, st.lastItem, item)
           /\ st.pktResLength + (itemOffset + minRequiredLength)
                - (st.packets[p][q].address + st.packets[p][q].length) <= maxPayloadSize
        THEN LET part == st.packets[p][q]
                 addedLength == Max(part.length, (itemOffset - part.address) + itemLength)
                                    - part.length
                 complete == addedLength <= remainingLength
                 grown == IF complete THEN addedLength ELSE remainingLength
                 consumedItemLength == (part.length + grown) - (itemOffset - part.address)
                 st1 == [st EXCEPT
                            !.pktResLength = @ + grown,
                            !.packets[p][q].length = @ + grown,
                            !.packets[p][q].items = Append(@, item),
                            !.steps = Append(@, PlanStep(st, "same-part", item,
                                                 itemOffset, itemLength, complete))]
             IN  Pass(st1, complete, itemLength, itemOffset, consumedItemLength)
        ELSE IF /\ st.hasPacket
                /\ st.pktReqLength + reqPartSize <= maxPayloadSize
                /\ st.pktResLength + resPartSize + minRequiredLength <= maxPayloadSize
        THEN LET complete == st.pktResLength + resPartSize + itemLength <= maxPayloadSize
                 consumedItemLength == maxPayloadSize - st.pktResLength - resPartSize
                 partLength == IF complete THEN itemLength ELSE consumedItemLength
                 st1 == [st EXCEPT
                            !.packets[p] = Append(@, NewPart(item, itemOffset, partLength)),
                            !.hasPart = TRUE,
                            !.pktReqLength = @ + reqPartSize,
                            !.pktResLength = @ + resPartSize + partLength,
                            !.steps = Append(@, PlanStep(st, "new-part", item,
                                                 itemOffset, itemLength, complete))]
             IN  Pass(st1, complete, itemLength, itemOffset, consumedItemLength)
        ELSE LET complete == resHeaderSize + resPartSize + itemLength <= maxPayloadSize
                 consumedItemLength == maxPayloadSize - resHeaderSize - resPartSize
                 partLength == IF complete THEN itemLength ELSE consumedItemLength
                 st1 == [st EXCEPT
                            !.packets = Append(@, <<NewPart(item, itemOffset, partLength)>>),
                            !.hasPacket = TRUE, !.hasPart = TRUE,
                            !.pktReqLength = reqHeaderSize + reqPartSize,
                            !.pktResLength = resHeaderSize + resPartSize + partLength,
                            !.steps = Append(@, PlanStep(st, "new-packet", item,
                                                 itemOffset, itemLength, complete))]
             IN  Pass(st1, complete, itemLength, itemOffset, consumedItemLength)

\* a pass of the while loop and the passes after it until the whole item is
\* placed
RECURSIVE placeItem(_, _, _, _, _)
placeTurn(g, st, item, itemLength, itemOffset) ==
    Only({IF t.complete THEN t.st
          ELSE placeItem(g, AfterTurn(t.st, FALSE), item, t.itemLength, t.itemOffset) :
             t \in {placePass(g, st, item, itemLength, itemOffset)}})

\* a plausible slip: every item starts without a current packet and part
placeItem_freshPacket(g, st, item, itemLength, itemOffset) ==
    Only({placeTurn(g, [s EXCEPT !.hasPacket = FALSE, !.hasPart = FALSE], item, l, o) :
             s \in {st}, l \in {itemLength}, o \in {itemOffset}})

\* the while loop over one item, from the working variables as they stand
placeItem(g, st, item, itemLength, itemOffset) ==
    Only({placeTurn(g, s, item, l, o) :
             s \in {st}, l \in {itemLength}, o \in {itemOffset}})

\* the for loop over the sorted items, from the i-th on
RECURSIVE placeItems(_, _, _, _)
placeItems(g, st, items, i) ==
    IF i > Len(items) THEN st
    ELSE Only({placeItems(g, s, items, i + 1) :
                  s \in {[placeItem(g, st, items[i], items[i].byteLength,
                                    items[i].offset)
                             EXCEPT !.lastItem = <<items[i]>>]}})

\* the second loop: the copy descriptor of every item of every part
WithOffsets(packets) ==
    [i \in 1..Len(packets) |->
        [j \in 1..Len(packets[i]) |->
            [packets[i][j] EXCEPT !.offsets =
                [k \in 1..Len(packets[i][j].items) |->
                    _getCopyBufferOffsets(packets[i][j].items[k],
                                          packets[i][j].address,
                                          packets[i][j].length)]]]]

\* some item of some part got no copy descriptor
OffsetsMissing(packets) ==
    \E i \in 1..Len(packets) : \E j \in 1..Len(packets[i]) :
        \E k \in 1..Len(packets[i][j].offsets) : packets[i][j].offsets[k].none

\* a plausible slip: this._readPackets = [] comes before the PDU size is
\* looked at
_prepareReadPackets_assignsFirst(g, items) ==
    IF g.pduSize = PDU_NULL
    THEN [err |-> "ERR_ILLEGAL_STATE", assigned |-> TRUE, packets |-> <<>>,
          steps |-> <<>>]
    ELSE Only({[err |-> IF OffsetsMissing(WithOffsets(st.packets))
                         THEN "Couldn't calculate offsets" ELSE "none",
                assigned |-> TRUE, packets |-> WithOffsets(st.packets),
                steps |-> st.steps] :
                  st \in {Only({placeItems(g, PlanStart, sorted, 1) :
                                  sorted \in {SortItems(items)}})}})

\* _prepareReadPackets: what it throws, and what it leaves in _readPackets
\* (nothing when there is no PDU size yet; the packets as far as they got
\* when a copy descriptor cannot be computed)
_prepareReadPackets(g, items) ==
    IF g.pduSize = PDU_NULL
    THEN [err |-> "ERR_ILLEGAL_STATE", assigned |-> FALSE, packets |-> <<>>,
          steps |-> <<>>]
    ELSE Only({[err |-> IF OffsetsMissing(WithOffsets(st.packets))
                         THEN "Couldn't calculate offsets" ELSE "none",
                assigned |-> TRUE, packets |-> WithOffsets(st.packets),
                steps |-> st.steps] :
                  st \in {Only({placeItems(g, PlanStart, sorted, 1) :
                                  sorted \in {SortItems(items)}})}})

(***************************************************************************)
(* S7ItemGroup: items, cached plan, readAllItems                           *)
(***************************************************************************)
\* this._readPackets = null
NullPackets == [isNull |-> TRUE, packets |-> <<>>]

\* no plan was built since the items or the PDU size last changed
NoPlan == [done |-> FALSE, err |-> "none", packets |-> <<>>, steps |-> <<>>]

\* no _prepareReadPackets call is being followed
NoLoop ==
    [running |-> FALSE, pduSize |-> PDU_NULL, items |-> <<>>, item |-> 0,
     itemLength |-> 0, itemOffset |-> 0, st |-> PlanStart, passes |-> 0]

\* no readAllItems call is being followed
NoRead ==
    [outcome |-> "none", kind |-> "none", code |-> 0,
     context |-> [area |-> 0, db |-> 0, address |-> 0, length |-> 0],
     jobs |-> <<>>, results |-> <<>>, value |-> <<>>,
     copied |-> {}, updated |-> {}]

\* the group as the methods see it
Group ==
    [_items |-> _items, _readPackets |-> _readPackets,
     _skipOptimization |-> _skipOptimization,
     _optimizationGap |-> _optimizationGap, destroyed |-> groupDestroyed]

\* a plausible slip: the protocol overhead is not taken off the PDU size
PlanParams_noOverhead(s, grp) ==
    [pduSize |-> s._pduSize + READ_OVERHEAD,
     _optimizationGap |-> grp._optimizationGap,
     _skipOptimization |-> grp._skipOptimization]

\* what the planner reads: the endpoint's pduSize and the group's options
PlanParams(s, grp) ==
    [pduSize |-> s._pduSize, _optimizationGap |-> grp._optimizationGap,
     _skipOptimization |-> grp._skipOptimization]

_invalidateReadPackets(grp) == [grp EXCEPT !._readPackets = NullPackets]

\* Map.set: a new key goes last, a known key keeps its place
MapSet(items, item) ==
    IF \E i \in 1..Len(items) : items[i].name = item.name
    THEN [i \in 1..Len(items) |->
             IF items[i].name = item.name THEN item ELSE items[i]]
    ELSE Append(items, item)

\* Map.delete
RECURSIVE MapDelete(_, _)
MapDelete(items, name) ==
    IF items = <<>> THEN <<>>
    ELSE IF Head(items).name = name THEN Tail(items)
    ELSE <<Head(items)>> \o MapDelete(Tail(items), name)

\* addItems: the tags are set one after the other; a tag of the wrong type
\* throws there and then, and the plan is invalidated after the last tag
RECURSIVE addItems(_, _)
addItems(grp, tags) ==
    IF tags = <<>> THEN [err |-> "none", grp |-> _invalidateReadPackets(grp)]
    ELSE IF Head(tags) = NotATag THEN [err |-> "ERR_INVALID_ARGUMENT", grp |-> grp]
    ELSE addItems([grp EXCEPT !._items = MapSet(@, Head(tags))], Tail(tags))

RECURSIVE DeleteAll(_, _)
DeleteAll(items, names) ==
    IF names = <<>> THEN items
    ELSE DeleteAll(MapDelete(items, Head(names)), Tail(names))

\* removeItems(tags): every item when no tags are given (all = TRUE)
removeItems(grp, all, names) ==
    _invalidateReadPackets(
        [grp EXCEPT !._items = IF all THEN <<>> ELSE DeleteAll(@, names)])

\* destroy()
destroy(grp) ==
    [grp EXCEPT !.destroyed = TRUE, !._readPackets = NullPackets, !._items = <<>>]

\* the context a rejection carries about the part that failed
PartContext(part) ==
    [area |-> part.area, db |-> part.db, address |-> part.address,
     length |-> part.length]

\* how a readAllItems call ends: what it answers, the (packet, part, item)
\* of the plan that were copied into their item's buffer, and the names of
\* the items whose value was decoded from the buffer
ReadOutcome(outcome, kind, code, context, value) ==
    [outcome |-> outcome, kind |-> kind, code |-> code, context |-> context,
     value |-> value, copied |-> {}, updated |-> {}]

ReadRejected(kind, code, context) == ReadOutcome("rejected", kind, code, context, <<>>)

\* readAllItems from the plan it works with, up to its await: nothing is
\* asked for an empty plan, else one readVars per packet
readAllItemsPlanned(s, grp, fresh, plan) ==
    LET grp2 == IF fresh /\ plan.assigned
                THEN [grp EXCEPT !._readPackets =
                         [isNull |-> FALSE, packets |-> plan.packets]]
                ELSE grp
        r == AllJobs([i \in 1..Len(plan.packets) |-> readVars(s, plan.packets[i])])
    IN  [grp |-> grp2, planned |-> fresh,
         plan |-> [done |-> TRUE, err |-> plan.err, packets |-> plan.packets,
                   steps |-> plan.steps],
         jobs |-> IF plan.err = "none" THEN r.jobs ELSE <<>>,
         out |-> IF plan.err # "none"
                 THEN ReadRejected(plan.err, 0, NoRead.context)
                 ELSE IF plan.packets = <<>>
                 THEN ReadOutcome("resolved", "none", 0, NoRead.context, <<>>)
                 ELSE IF r.err # "none"
                 THEN ReadRejected(r.err, 0, NoRead.context)
                 ELSE ReadOutcome("pending", "none", 0, NoRead.context, <<>>)]

\* readAllItems up to its await: the plan is built when there is none
readAllItems(s, grp) ==
    IF grp.destroyed
    THEN [grp |-> grp, planned |-> FALSE, plan |-> NoPlan, jobs |-> <<>>,
          out |-> ReadRejected("Already destroyed", 0, NoRead.context)]
    ELSE IF grp._readPackets.isNull
    THEN Only({readAllItemsPlanned(s, grp, TRUE, plan) :
                  plan \in {_prepareReadPackets(PlanParams(s, grp), grp._items)}})
    ELSE readAllItemsPlanned(s, grp, FALSE,
             [err |-> "none", assigned |-> FALSE,
              packets |-> grp._readPackets.packets, steps |-> <<>>])

\* the PLC's answer to a job, one return code for each part asked
PlcAnswerEach(job, codes) ==
    [k \in 1..Len(job.param) |->
        [returnCode |-> codes[k],
         data |-> IF codes[k] = DATA_OK
                  THEN [n \in 1..job.param[k].length |->
                           PlcByte((job.param[k].address \div 8) + n - 1)]
                  ELSE <<>>]]

\* every (packet, part, item) of a plan
PlanSlots(packets) ==
    UNION {UNION {{<<i, j, k>> : k \in 1..Len(packets[i][j].items)} :
                     j \in 1..Len(packets[i])} : i \in 1..Len(packets)}

\* item._copyFromBuffer for every part that lists the item, then item.value:
\* the bytes of the item, -1 where nothing was copied
ItemValue(item, packets, responses) ==
    [n \in 1..item.byteLength |->
        LET hits == {h \in PlanSlots(packets) :
                        /\ packets[h[1]][h[2]].items[h[3]].name = item.name
                        /\ ~packets[h[1]][h[2]].offsets[h[3]].none
                        /\ packets[h[1]][h[2]].offsets[h[3]].destOffset < n
                        /\ n <= packets[h[1]][h[2]].offsets[h[3]].destOffset
                                + packets[h[1]][h[2]].offsets[h[3]].byteCount}
        IN  IF hits = {} THEN -1
            ELSE LET h == CHOOSE x \in hits : TRUE
                     off == packets[h[1]][h[2]].offsets[h[3]]
                 IN  responses[h[1]][h[2]].data[off.sourceOffset + n - off.destOffset]]

\* the loop over the packets and their parts: the first part without an
\* answer or with a bad return code throws
RECURSIVE parseResponses(_, _, _, _)
parseResponses(packets, responses, i, j) ==
    IF i > Len(packets) THEN ReadOutcome("resolved", "none", 0, NoRead.context, <<>>)
    ELSE IF j > Len(packets[i]) THEN parseResponses(packets, responses, i + 1, 1)
    ELSE IF i > Len(responses) THEN ReadRejected("TypeError", 0, NoRead.context)
    ELSE IF j > Len(responses[i])
    THEN ReadRejected("ERR_UNEXPECTED_RESPONSE", 0, PartContext(packets[i][j]))
    ELSE IF responses[i][j].returnCode # DATA_OK
    THEN ReadRejected("returnCode", responses[i][j].returnCode,
                      PartContext(packets[i][j]))
    ELSE parseResponses(packets, responses, i, j + 1)

\* the part j of packet i was answered, and with DATA_OK
PartGood(responses, i, j) ==
    /\ i <= Len(responses) /\ j <= Len(responses[i])
    /\ responses[i][j].returnCode = DATA_OK

\* the (packet, part, item) whose item._copyFromBuffer has run when the loop
\* over the packets and their parts ends: those of the parts before the first
\* one that throws
CopiedSlots(packets, responses) ==
    {h \in PlanSlots(packets) :
        \A i \in 1..h[1] : \A j \in 1..Len(packets[i]) :
            (i < h[1] \/ j <= h[2]) => PartGood(responses, i, j)}

\* a plausible slip: the value of an item is decoded as soon as a part was
\* copied into its buffer
readAllItemsResults_updatesEachPart(grp, responses) ==
    IF grp._readPackets.isNull THEN ReadRejected("TypeError", 0, NoRead.context)
    ELSE LET packets == grp._readPackets.packets
             r == parseResponses(packets, responses, 1, 1)
             copied == CopiedSlots(packets, responses)
             updated == {packets[h[1]][h[2]].items[h[3]].name : h \in copied}
         IN  IF r.outcome = "rejected"
             THEN [r EXCEPT !.copied = copied, !.updated = updated]
             ELSE [r EXCEPT !.copied = copied, !.updated = updated,
                            !.value =
                      [t \in 1..Len(grp._items) |->
                          [tag |-> grp._items[t].name,
                           value |-> ItemValue(grp._items[t], packets, responses)]]]

\* readAllItems after its await: the answers are read along the plan the
\* group holds by then, and the items it holds by then are decoded and
\* mapped when no part has thrown
readAllItemsResults(grp, responses) ==
    IF grp._readPackets.isNull THEN ReadRejected("TypeError", 0, NoRead.context)
    ELSE LET packets == grp._readPackets.packets
             r == parseResponses(packets, responses, 1, 1)
             copied == CopiedSlots(packets, responses)
         IN  IF r.outcome = "rejected" THEN [r EXCEPT !.copied = copied]
             ELSE [r EXCEPT !.copied = copied,
                            !.updated = {grp._items[t].name : t \in 1..Len(grp._items)},
                            !.value =
                      [t \in 1..Len(grp._items) |->
                          [tag |-> grp._items[t].name,
                           value |-> ItemValue(grp._items[t], packets, responses)]]]

(***************************************************************************)
(* The lifecycle: one action for each handler                              *)
(***************************************************************************)
\* the endpoint emitted 'pdu-size' in the step
PduSizeEmitted(events) == \E i \in 1..Len(events) : events[i].ev = "pdu-size"

\* the readAllItems call is followed until it has settled and something
\* else happens
StillFollowed == IF readCall.outcome = "pending" THEN readCall ELSE NoRead

\* the promises of disconnect() calls that registered once('disconnect', res)
\* and once('error', rej): they are settled by the first of the two events
\* that is emitted, and forgotten in the step after
DisconnectHeard(p, events) ==
    LET heard == {i \in 1..Len(events) : events[i].ev \in {"disconnect", "error"}}
        first == CHOOSE i \in heard : \A j \in heard : i <= j
    IN  IF p # "pending" THEN "none"
        ELSE IF heard = {} THEN "pending"
        ELSE IF events[first].ev = "disconnect" THEN "resolved"
        ELSE "rejected"

\* the listeners of the pending disconnect() calls hear what the step emits
\* whether a job has timed out with no 'connect' emitted since, after the
\* handler op that emitted events
TimeoutFollowed(op, events) ==
    IF op = "connectionTimeout" THEN TRUE
    ELSE IF \E i \in 1..Len(events) : events[i].ev = "connect" THEN FALSE
    ELSE jobTimedOut

Listeners ==
    /\ disconnectPromise' = DisconnectHeard(disconnectPromise, emitted')
    /\ jobTimedOut' = TimeoutFollowed(last'.op, emitted')

\* the writeItems call is followed until it has settled and something else
\* happens
WriteFollowed ==
    IF call.op = "writeItems" /\ call.outcome # "pending" THEN NoCall ELSE call

\* the group while none of its methods runs: its 'pdu-size' listener
\* discards the plan
GroupListens ==
    /\ _readPackets' = IF ~groupDestroyed /\ PduSizeEmitted(emitted')
                       THEN _invalidateReadPackets(Group)._readPackets
                       ELSE _readPackets
    /\ planned' = IF _pduSize' # _pduSize THEN NoPlan ELSE planned
    /\ readCall' = StillFollowed
    /\ UNCHANGED <<_items, _skipOptimization, _optimizationGap, loop>>

Config ==
    /\ UNCHANGED <<_autoReconnect, customTransport>>
    /\ call' = WriteFollowed
    /\ GroupListens

Handler(op, s) ==
    /\ Commit(s)
    /\ last' = Last(op, "none", 0)
    /\ UNCHANGED <<disconnectCalled, groupDestroyed>>
    /\ Listeners
    /\ Config

\* the user calls connect()
UserConnect ==
    /\ Commit(connect(World))
    /\ last' = Last("connect", connectAnswer(World), 0)
    /\ UNCHANGED <<disconnectCalled, groupDestroyed>>
    /\ Listeners
    /\ Config

\* the user calls disconnect()
UserDisconnect ==
    /\ Commit(disconnect(World))
    /\ last' = Last("disconnect", disconnectAnswer(World), 0)
    /\ disconnectCalled' = TRUE
    /\ disconnectPromise' = IF disconnectAnswer(World) = "pending" THEN "pending"
                            ELSE DisconnectHeard(disconnectPromise, emitted')
    /\ jobTimedOut' = TimeoutFollowed("disconnect", emitted')
    /\ UNCHANGED groupDestroyed
    /\ Config

\* the timeout set by _scheduleReconnection fires
ReconnectTimerFired ==
    /\ _reconnectTimer
    /\ Handler("reconnectTimer", _connect([World EXCEPT !._reconnectTimer = FALSE,
                                               !.timeouts = @ - 1]))

\* the factory's promise of the latest _connect is fulfilled: the default
\* transport has connected, or the custom factory has produced its stream
TransportResolved ==
    /\ race = "pending"
    /\ customTransport \/ (~_transport.isNull /\ ~_transport.wired)
    /\ Handler("transportResolved", raceThen([World EXCEPT !.race = "none"]))

\* the factory's promise of the latest _connect is rejected, or its 10 s
\* timeout wins the race
TransportRejected ==
    /\ race = "pending"
    /\ Handler("transportRejected", _onTransportError([World EXCEPT !.race = "none"]))

\* the race of an earlier _connect settles.  Its transport, if it had one,
\* was destroyed, so it is rejected by its timeout; a custom factory may
\* also fulfil it, and the reaction then throws on the null this._transport
StaleRaceSettled ==
    /\ staleRaces > 0
    /\ Handler("staleRaceSettled",
               _onTransportError([World EXCEPT !.staleRaces = @ - 1]))

\* the transport emits 'close', 'end' or 'error' to the attached listeners
TransportClose ==
    /\ ~_transport.isNull /\ _transport.wired
    /\ Handler("transportClose",
               _onTransportClose([World EXCEPT !._transport.closed = TRUE]))

TransportEnd ==
    /\ ~_transport.isNull /\ _transport.wired
    /\ Handler("transportEnd", _onTransportEnd(World))

TransportError ==
    /\ ~_transport.isNull /\ _transport.wired
    /\ Handler("transportError", _onTransportError(World))

\* a transport destroyed earlier emits its 'close'
StaleTransportClose ==
    /\ staleTransports > 0
    /\ Handler("staleTransportClose",
               _onTransportClose([World EXCEPT !.staleTransports = @ - 1]))

\* the S7Connection has its setup acknowledged with PDU size sz and emits
\* 'connect'; it needs a transport it can still write to
ConnectionConnected(sz) ==
    /\ ~_connection.isNull /\ ~_connection.connected
    /\ ~_transport.isNull /\ ~_transport.ended
    /\ Handler("connectionConnected",
               _onConnectionConnected(
                   [World EXCEPT !._connection.pduSize = sz,
                                 !._connection.connected = TRUE]))

\* the S7Connection emits 'error'
ConnectionError ==
    /\ ~_connection.isNull
    /\ Handler("connectionError", _onConnectionError(World))

\* the S7Connection emits 'timeout': a job was not answered in time
ConnectionTimeout ==
    /\ ~_connection.isNull
    /\ Handler("connectionTimeout", _onConnectionTimeout(World))

\* the fields of the endpoint stay as they are
EndpointFields ==
    UNCHANGED <<_autoReconnect, customTransport, _connectionState, _connection,
                _transport, _pduSize, _reconnectTimer, timeouts, _shouldConnect, race,
                staleRaces, staleTransports, disconnectCalled, disconnectPromise, jobTimedOut>>

\* the group's fields after one of its methods
GroupCommit(grp) ==
    /\ _items' = grp._items
    /\ _readPackets' = grp._readPackets
    /\ groupDestroyed' = grp.destroyed
    /\ UNCHANGED <<_skipOptimization, _optimizationGap, loop>>

\* a call that changes no field of the endpoint
Call(op, r) ==
    /\ last' = Last(op, r.err, Len(r.jobs))
    /\ emitted' = <<>>
    /\ UNCHANGED <<_connectionState, _connection, _transport, _pduSize,
                   _reconnectTimer, timeouts, _shouldConnect, race, staleRaces,
                   staleTransports, disconnectCalled, groupDestroyed>>
    /\ Listeners
    /\ Config

OneItem(area, db, address, length) ==
    << [area |-> area, db |-> db, address |-> address,
        transport |-> TRANSPORT_BYTE, length |-> length,
        dataTransport |-> "BBYTE", data |-> BufferAlloc(length)] >>

ReadVars ==
    Call("readVars", readVars(World, OneItem(AREA_DB, 1, 0, 1)))

WriteVars ==
    Call("writeVars", writeVars(World, OneItem(AREA_DB, 1, 0, 1)))

ReadArea ==
    \E length \in CallLengths :
        Call("readArea", readArea(World, AREA_DB, 0, length, 1))

WriteArea ==
    \E length \in CallLengths :
        Call("writeArea", writeArea(World, AREA_DB, 0, BufferAlloc(length), 1))

WriteItems ==
    \E tags \in WriteTagLists : \E nValues \in {Len(tags), Len(tags) + 1} :
        \E r \in {writeItems(World, Group, tags, nValues)} :
            /\ GroupCommit(r.grp)
            /\ last' = [Last("writeItems", r.call.err, Len(r.call.jobs)) EXCEPT
                          !.tags = Len(tags), !.values = nValues,
                          !.args = tags]
            /\ emitted' = <<>>
            /\ EndpointFields
            /\ planned' = planned
            /\ readCall' = StillFollowed
            /\ call' = WriteFollowed

\* S7ItemGroup.destroy(): the group lets go of the endpoint
GroupDestroy ==
    /\ ~groupDestroyed
    /\ GroupCommit(destroy(Group))
    /\ planned' = NoPlan
    /\ last' = Last("destroy", "none", 0)
    /\ emitted' = <<>>
    /\ EndpointFields
    /\ readCall' = StillFollowed
    /\ call' = WriteFollowed

\* new S7ItemGroup(endpoint) with the default options
EmptyGroup ==
    /\ _items = <<>>
    /\ _readPackets = NullPackets
    /\ _skipOptimization = FALSE
    /\ _optimizationGap = 5
    /\ planned = NoPlan
    /\ loop = NoLoop
    /\ readCall = NoRead

\* the endpoint as new S7Endpoint(opts) leaves it, with a group on it
Init ==
    /\ _autoReconnect \in AutoReconnectValues
    /\ customTransport \in BOOLEAN
    /\ _connectionState = constructor(_initParams)._connectionState
    /\ _connection = constructor(_initParams)._connection
    /\ _transport = constructor(_initParams)._transport
    /\ _pduSize = constructor(_initParams)._pduSize
    /\ _reconnectTimer = constructor(_initParams)._reconnectTimer
    /\ timeouts = constructor(_initParams).timeouts
    /\ _shouldConnect = constructor(_initParams)._shouldConnect
    /\ race = constructor(_initParams).race
    /\ staleRaces = constructor(_initParams).staleRaces
    /\ staleTransports = constructor(_initParams).staleTransports
    /\ emitted = constructor(_initParams).emitted
    /\ last = [op |-> "constructor", from |-> CONN_DISCONNECTED, err |-> "none",
               jobs |-> 0, tags |-> 0, values |-> 0, args |-> <<>>,
               timer |-> FALSE]
    /\ disconnectCalled = FALSE
    /\ disconnectPromise = "none"
    /\ jobTimedOut = FALSE
    /\ groupDestroyed = FALSE
    /\ call = NoCall
    /\ EmptyGroup

\* what the user, the timer, the transport and the S7Connection do to the
\* endpoint's lifecycle
Lifecycle ==
    \/ UserConnect
    \/ UserDisconnect
    \/ ReconnectTimerFired
    \/ TransportResolved
    \/ TransportRejected
    \/ StaleRaceSettled
    \/ TransportClose
    \/ TransportEnd
    \/ TransportError
    \/ StaleTransportClose
    \/ \E sz \in PduSizes : ConnectionConnected(sz)
    \/ ConnectionError
    \/ ConnectionTimeout

Next ==
    \/ Lifecycle
    \/ ReadVars
    \/ WriteVars
    \/ ReadArea
    \/ WriteArea
    \/ WriteItems
    \/ GroupDestroy

Spec == Init /\ [][Next]_vars

\* the lifecycle alone (the calls leave it as it is), where a pending
\* timeout does fire
LiveSpec == Init /\ [][Lifecycle]_vars /\ WF_vars(ReconnectTimerFired)

\* the lifecycle where what was started comes to its end: a pending timeout
\* fires; a race settles (by the factory's answer or by its own 10 s
\* timeout), also one left behind by a later _connect; and a transport
\* that was asked to end emits 'close' or 'end'
SettleSpec ==
    /\ Init /\ [][Lifecycle]_vars
    /\ WF_vars(ReconnectTimerFired)
    /\ WF_vars(TransportResolved \/ TransportRejected)
    /\ WF_vars(StaleRaceSettled)
    /\ WF_vars(_transport.ended /\ (TransportClose \/ TransportEnd))

(***************************************************************************)
(* One readArea / writeArea call at a time on a Connected endpoint,        *)
(* followed from its jobs to its outcome                                   *)
(***************************************************************************)
EndpointUnchanged ==
    UNCHANGED <<_autoReconnect, customTransport, _connectionState, _connection,
                _transport, _pduSize, _reconnectTimer, timeouts, _shouldConnect, race,
                staleRaces, staleTransports, emitted, last, disconnectCalled,
                groupDestroyed, _items, _readPackets, _skipOptimization,
                _optimizationGap, loop, planned, readCall, disconnectPromise, jobTimedOut>>

\* the call up to its await: the jobs are submitted, nothing is answered yet
Started(op, address, length, data, r) ==
    [NoCall EXCEPT !.op = op, !.address = address, !.length = length,
                   !.data = data, !.jobs = r.jobs,
                   !.results = [i \in 1..Len(r.jobs) |-> <<>>],
                   !.outcome = IF r.err = "none" THEN "pending" ELSE "rejected",
                   !.kind = r.err]

StartReadArea ==
    /\ call.outcome # "pending"
    /\ \E address \in AreaAddresses, length \in 0..MaxReadLen :
           call' = Started("readArea", address, length, <<>>,
                           readArea(World, AREA_DB, address, length, 1))
    /\ EndpointUnchanged

StartWriteArea ==
    /\ call.outcome # "pending"
    /\ \E address \in AreaAddresses, length \in 0..MaxWriteLen :
           call' = Started("writeArea", address, length, DataOf(length),
                           writeArea(World, AREA_DB, address, DataOf(length), 1))
    /\ EndpointUnchanged

\* the PLC answers one of the jobs still open, in any order
Answer ==
    /\ call.outcome = "pending"
    /\ \E i \in 1..Len(call.jobs), code \in ReturnCodes :
           /\ call.results[i] = <<>>
           /\ call' = [call EXCEPT !.results[i] = PlcAnswer(call.jobs[i], code),
                                   !.arrived = Append(@, i)]
    /\ EndpointUnchanged

\* every job is answered: the call goes on after its await
Settle ==
    /\ call.outcome = "pending"
    /\ \A i \in 1..Len(call.jobs) : call.results[i] # <<>>
    /\ LET r == areaResults(PromiseAll(call), <<>>, call.op = "readArea")
       IN  call' = [call EXCEPT !.outcome = r.outcome, !.kind = r.kind,
                                !.code = r.code, !.value = r.value]
    /\ EndpointUnchanged

\* a Connected endpoint, as _onConnectionConnected leaves it
AreaInit ==
    /\ _autoReconnect = 5000
    /\ customTransport = FALSE
    /\ _connectionState = CONN_CONNECTED
    /\ _pduSize \in AreaPduSizes
    /\ _connection = [NewConnection EXCEPT !.pduSize = _pduSize, !.connected = TRUE]
    /\ _transport = [isNull |-> FALSE, wired |-> TRUE, ended |-> FALSE,
                     closed |-> FALSE]
    /\ _reconnectTimer = FALSE
    /\ timeouts = 0
    /\ _shouldConnect = TRUE
    /\ race = "none"
    /\ staleRaces = 0
    /\ staleTransports = 0
    /\ emitted = <<Ev("pdu-size", _pduSize, FALSE), Ev("connect", 0, TRUE)>>
    /\ last = [op |-> "connectionConnected", from |-> CONN_CONNECTING,
               err |-> "none", jobs |-> 0, tags |-> 0, values |-> 0, args |-> <<>>,
               timer |-> FALSE]
    /\ disconnectCalled = FALSE
    /\ disconnectPromise = "none"
    /\ jobTimedOut = FALSE
    /\ groupDestroyed = FALSE
    /\ call = NoCall
    /\ EmptyGroup

AreaNext ==
    \/ StartReadArea
    \/ StartWriteArea
    \/ Answer
    \/ Settle

SpecArea == AreaInit /\ [][AreaNext]_vars

(***************************************************************************)
(* The item group on a Connected endpoint: its methods, and one           *)
(* readAllItems call at a time followed from its jobs to its outcome       *)
(***************************************************************************)
\* a method of the group that returns at once
GroupMethod(op, err, grp) ==
    /\ GroupCommit(grp)
    /\ planned' = IF grp._items # _items THEN NoPlan ELSE planned
    /\ last' = Last(op, err, 0)
    /\ emitted' = <<>>
    /\ EndpointFields
    /\ readCall' = StillFollowed
    /\ call' = WriteFollowed

AddItems(tags) ==
    \E r \in {addItems(Group, tags)} : GroupMethod("addItems", r.err, r.grp)

RemoveItems(all, names) ==
    GroupMethod("removeItems", "none", removeItems(Group, all, names))

\* readAllItems is called and runs up to its await
ReadAllItems ==
    /\ readCall.outcome # "pending"
    /\ \E r \in {readAllItems(World, Group)} :
           /\ GroupCommit(r.grp)
           /\ planned' = IF r.planned THEN r.plan ELSE planned
           /\ readCall' = [NoRead EXCEPT
                             !.outcome = r.out.outcome, !.kind = r.out.kind,
                             !.jobs = r.jobs,
                             !.results = [i \in 1..Len(r.jobs) |-> <<>>]]
           /\ last' = Last("readAllItems", r.out.kind, Len(r.jobs))
    /\ emitted' = <<>>
    /\ EndpointFields
    /\ call' = WriteFollowed

\* only the followed readAllItems call moves
ReadCallOnly ==
    UNCHANGED <<_autoReconnect, customTransport, _connectionState, _connection,
                _transport, _pduSize, _reconnectTimer, timeouts, _shouldConnect, race,
                staleRaces, staleTransports, emitted, last, disconnectCalled,
                groupDestroyed, call, _items, _readPackets, _skipOptimization,
                _optimizationGap, loop, planned, disconnectPromise, jobTimedOut>>

\* the PLC answers one of the jobs still open, each part with a code of codes
ReadAnswer(codes) ==
    /\ readCall.outcome = "pending"
    /\ \E i \in 1..Len(readCall.jobs) :
           /\ readCall.results[i] = <<>>
           /\ \E c \in [1..Len(readCall.jobs[i].param) -> codes] :
                  readCall' = [readCall EXCEPT
                                 !.results[i] = PlcAnswerEach(readCall.jobs[i], c)]
    /\ ReadCallOnly

\* every job is answered: readAllItems goes on after its await
ReadSettle ==
    /\ readCall.outcome = "pending"
    /\ \A i \in 1..Len(readCall.jobs) : readCall.results[i] # <<>>
    /\ \E r \in {readAllItemsResults(Group, readCall.results)} :
           readCall' = [readCall EXCEPT
                          !.outcome = r.outcome, !.kind = r.kind, !.code = r.code,
                          !.context = r.context, !.value = r.value,
                          !.copied = r.copied, !.updated = r.updated]
    /\ ReadCallOnly

\* a Connected endpoint with PDU size sz, as _onConnectionConnected leaves it
ConnectedWith(sz, connection) ==
    /\ _autoReconnect = 5000
    /\ customTransport = FALSE
    /\ _connectionState = CONN_CONNECTED
    /\ _pduSize = sz
    /\ _connection = connection
    /\ _transport = [isNull |-> FALSE, wired |-> TRUE, ended |-> FALSE,
                     closed |-> FALSE]
    /\ _reconnectTimer = FALSE
    /\ timeouts = 0
    /\ _shouldConnect = TRUE
    /\ race = "none"
    /\ staleRaces = 0
    /\ staleTransports = 0
    /\ emitted = <<Ev("pdu-size", sz, FALSE), Ev("connect", 0, TRUE)>>
    /\ last = [op |-> "connectionConnected", from |-> CONN_CONNECTING,
               err |-> "none", jobs |-> 0, tags |-> 0, values |-> 0, args |-> <<>>,
               timer |-> FALSE]
    /\ disconnectCalled = FALSE
    /\ disconnectPromise = "none"
    /\ jobTimedOut = FALSE
    /\ groupDestroyed = FALSE
    /\ call = NoCall

\* the same with a connection that has issued no job since its setup
ConnectedEndpoint(sz) ==
    ConnectedWith(sz, [NewConnection EXCEPT !.pduSize = sz, !.connected = TRUE])

(***************************************************************************)
(* The planner over groups of items                                        *)
(***************************************************************************)
\* the PDU sizes of the planned groups
PlanPduSizes == {60, 66}

\* the options the groups are built with
PlanOptions ==
    {[skipOptimization |-> FALSE, optimizationGap |-> 5],
     [skipOptimization |-> FALSE, optimizationGap |-> 10],
     [skipOptimization |-> TRUE, optimizationGap |-> 5]}

\* the items of the planned groups, in the order they are added
PlanItems ==
    << S7Item("DB1,X9", "DB", AREA_DB, 1, 9, 1),
       S7Item("T0", "T", AREA_TIMER, DB_UNDEFINED, 0, 2),
       S7Item("M46", "M", AREA_FLAGS, DB_UNDEFINED, 46, 1),
       S7Item("DB2,X0", "DB", AREA_DB, 2, 0, 1),
       S7Item("DB1,X3", "DB", AREA_DB, 1, 3, 1),
       S7Item("M0", "M", AREA_FLAGS, DB_UNDEFINED, 0, 50),
       S7Item("M100", "M", AREA_FLAGS, DB_UNDEFINED, 100, 31),
       S7Item("DB1,X10", "DB", AREA_DB, 1, 10, 16),
       S7Item("DB1,X0", "DB", AREA_DB, 1, 0, 1) >>

\* the items of a list at the places of a set, in the order of the list
RECURSIVE Pick(_, _, _)
Pick(items, places, i) ==
    IF i > Len(items) THEN <<>>
    ELSE (IF i \in places THEN <<items[i]>> ELSE <<>>) \o Pick(items, places, i + 1)

\* a group with some of the items on a Connected endpoint
PlanInit ==
    /\ \E sz \in PlanPduSizes : ConnectedEndpoint(sz)
    /\ \E places \in SUBSET (1..Len(PlanItems)) : _items = Pick(PlanItems, places, 1)
    /\ _readPackets = NullPackets
    /\ \E o \in PlanOptions : /\ _skipOptimization = o.skipOptimization
                              /\ _optimizationGap = o.optimizationGap
    /\ planned = NoPlan
    /\ loop = NoLoop
    /\ readCall = NoRead

PlanNext ==
    \/ ReadAllItems
    \/ ReadAnswer({DATA_OK})
    \/ ReadSettle
    \/ readCall.outcome # "pending" /\ _items # <<>> /\ AddItems(_items)

SpecPlan == PlanInit /\ [][PlanNext]_vars

\* items that start at the same byte and bit: a bit, a word and six bytes at
\* DB1 offset 0, a byte and fifty bytes at M0, and two items elsewhere
OverlapItems ==
    << S7Item("DB1,X0", "DB", AREA_DB, 1, 0, 1),
       S7Item("M0", "M", AREA_FLAGS, DB_UNDEFINED, 0, 50),
       S7Item("DB1,BYTE0.6", "DB", AREA_DB, 1, 0, 6),
       S7Item("DB1,X3", "DB", AREA_DB, 1, 3, 1),
       S7Item("MB0", "M", AREA_FLAGS, DB_UNDEFINED, 0, 1),
       WordTag,
       S7Item("DB2,X0", "DB", AREA_DB, 2, 0, 1) >>

\* a group with some of these items on a Connected endpoint
OverlapInit ==
    /\ \E sz \in PlanPduSizes : ConnectedEndpoint(sz)
    /\ \E places \in SUBSET (1..Len(OverlapItems)) :
           _items = Pick(OverlapItems, places, 1)
    /\ _readPackets = NullPackets
    /\ \E o \in PlanOptions : /\ _skipOptimization = o.skipOptimization
                              /\ _optimizationGap = o.optimizationGap
    /\ planned = NoPlan
    /\ loop = NoLoop
    /\ readCall = NoRead

SpecOverlap == OverlapInit /\ [][PlanNext]_vars

(***************************************************************************)
(* A group whose items come and go while the endpoint reconnects           *)
(***************************************************************************)
\* the lists of tags handed to addItems
GroupTagLists ==
    { <<S7Item("T0", "T", AREA_TIMER, DB_UNDEFINED, 0, 2)>>,
      <<S7Item("DB1,X0", "DB", AREA_DB, 1, 0, 1)>>,
      <<S7Item("DB2,X0", "DB", AREA_DB, 2, 0, 1)>>,
      <<S7Item("DB2,X0", "DB", AREA_DB, 2, 0, 1), NotATag>> }

\* a new group with the default options on a Connected endpoint
GroupInit ==
    /\ \E sz \in PlanPduSizes : ConnectedEndpoint(sz)
    /\ EmptyGroup

\* the endpoint loses its connection and finds it again, with any PDU size,
\* while no readAllItems call waits for its answers
Reconnects ==
    /\ readCall.outcome # "pending"
    /\ \/ TransportClose
       \/ ReconnectTimerFired
       \/ TransportResolved
       \/ \E sz \in PlanPduSizes : ConnectionConnected(sz)

GroupNext ==
    \/ \E tags \in GroupTagLists : AddItems(tags)
    \/ RemoveItems(TRUE, <<>>)
    \/ RemoveItems(FALSE, <<"T0">>)
    \/ ReadAllItems
    \/ ReadAnswer(ReturnCodes)
    \/ ReadSettle
    \/ GroupDestroy
    \/ Reconnects

SpecGroup == GroupInit /\ [][GroupNext]_vars

(***************************************************************************)
(* A group on an endpoint fresh from its constructor                       *)
(***************************************************************************)
SpecFresh == Init /\ [][GroupNext]_vars

(***************************************************************************)
(* writeItems calls on a group, one at a time, followed from their jobs to *)
(* their outcome                                                           *)
(***************************************************************************)
\* the lists of tags handed to writeItems: tags of the group and tags that
\* were never added, that fill one packet or more at the PDU sizes of the
\* groups, a tag too big for a packet, and one that is no tag
GroupWriteTagLists ==
    { <<>>,
      <<S7Item("DB1,X0", "DB", AREA_DB, 1, 0, 1)>>,
      <<S7Item("T0", "T", AREA_TIMER, DB_UNDEFINED, 0, 2),
        S7Item("DB1,X0", "DB", AREA_DB, 1, 0, 1),
        S7Item("DB2,X0", "DB", AREA_DB, 2, 0, 1)>>,
      <<S7Item("T0", "T", AREA_TIMER, DB_UNDEFINED, 0, 2), BitTag,
        S7Item("DB2,X0", "DB", AREA_DB, 2, 0, 1), WordTag>>,
      <<WordTag, S7Item("M100", "M", AREA_FLAGS, DB_UNDEFINED, 100, 31), BitTag>>,
      <<WordTag, S7Item("M0", "M", AREA_FLAGS, DB_UNDEFINED, 0, 50)>>,
      <<BitTag, NotATag>> }

\* writeItems is called and runs up to its await; with no tags it returns
StartWriteItems ==
    /\ call.outcome # "pending"
    /\ readCall.outcome # "pending"
    /\ \E tags \in GroupWriteTagLists : \E nValues \in {Len(tags), Len(tags) + 1} :
       \E r \in {writeItems(World, Group, tags, nValues)} :
           /\ GroupCommit(r.grp)
           /\ call' = [Started("writeItems", 0, Len(tags), <<>>, r.call) EXCEPT
                         !.outcome = IF r.call.err # "none" THEN "rejected"
                                     ELSE IF r.call.jobs = <<>> THEN "resolved"
                                     ELSE "pending"]
           /\ last' = [Last("writeItems", r.call.err, Len(r.call.jobs)) EXCEPT
                         !.tags = Len(tags), !.values = nValues, !.args = tags]
    /\ emitted' = <<>>
    /\ EndpointFields
    /\ planned' = planned
    /\ readCall' = StillFollowed

\* the PLC answers one of the WriteVar jobs still open, each item with a
\* code of codes
WriteAnswer(codes) ==
    /\ call.op = "writeItems" /\ call.outcome = "pending"
    /\ \E i \in 1..Len(call.jobs) :
           /\ call.results[i] = <<>>
           /\ \E c \in [1..Len(call.jobs[i].param) -> codes] :
                  call' = [call EXCEPT
                             !.results[i] = [k \in 1..Len(call.jobs[i].param) |->
                                                [returnCode |-> c[k], data |-> <<>>]],
                             !.arrived = Append(@, i)]
    /\ EndpointUnchanged

\* every job is answered: writeItems goes on after its await
WriteSettle ==
    /\ call.op = "writeItems" /\ call.outcome = "pending"
    /\ \A i \in 1..Len(call.jobs) : call.results[i] # <<>>
    /\ \E r \in {writeItemsResults(PromiseAll(call), 1, 1)} :
           call' = [call EXCEPT !.outcome = r.outcome, !.kind = r.kind,
                                !.code = r.code]
    /\ EndpointUnchanged

\* the group gets items and a plan, is destroyed, and the endpoint loses
\* its connection, while no writeItems call waits for its answers
WriteNext ==
    \/ StartWriteItems
    \/ WriteAnswer({RET_INVALID_ADDRESS, DATA_OK})
    \/ WriteSettle
    \/ call.outcome # "pending" /\ \E tags \in GroupTagLists : AddItems(tags)
    \/ call.outcome # "pending" /\ ReadAllItems
    \/ ReadAnswer({DATA_OK})
    \/ ReadSettle
    \/ call.outcome # "pending" /\ GroupDestroy
    \/ call.outcome # "pending" /\ readCall.outcome # "pending" /\ TransportClose

SpecWrite == GroupInit /\ [][WriteNext]_vars

(***************************************************************************)
(* _prepareReadPackets followed pass by pass                               *)
(***************************************************************************)
\* PDU sizes the planner accepts: two that leave no room for a byte of data
\* in a response of one part, one that leaves one byte, and one of the
\* planned groups
LoopPduSizes == {30, 36, 37, 60}

\* the passes of the while loop a call is followed for
MaxPasses == 6

\* the items of the groups whose planning is followed
LoopItems ==
    << S7Item("DB1,X3", "DB", AREA_DB, 1, 3, 1),
       S7Item("T0", "T", AREA_TIMER, DB_UNDEFINED, 0, 2),
       S7Item("DB1,X0", "DB", AREA_DB, 1, 0, 1),
       S7Item("DB1,X10", "DB", AREA_DB, 1, 10, 16) >>

\* the for loop reaches the i-th sorted item, or is over
EnterItem(l, i) ==
    IF i > Len(l.items) THEN [l EXCEPT !.running = FALSE, !.item = i]
    ELSE [l EXCEPT !.item = i, !.itemLength = l.items[i].byteLength,
                   !.itemOffset = l.items[i].offset]

\* the loops of _prepareReadPackets before the first pass
LoopBegin(sz, items) ==
    EnterItem([NoLoop EXCEPT !.running = TRUE, !.pduSize = sz,
                             !.items = SortItems(items)], 1)

\* one pass of the while loop, and the step of the for loop when the item is
\* complete
LoopPass ==
    /\ loop.running /\ loop.passes < MaxPasses
    /\ \E t \in {placePass([PlanParams(World, Group) EXCEPT !.pduSize = loop.pduSize],
                            loop.st, loop.items[loop.item],
                            loop.itemLength, loop.itemOffset)} :
          loop' = IF t.complete
                  THEN EnterItem([loop EXCEPT
                                    !.st = [t.st EXCEPT
                                              !.lastItem = <<loop.items[loop.item]>>],
                                    !.passes = @ + 1],
                                 loop.item + 1)
                  ELSE [loop EXCEPT !.st = AfterTurn(t.st, FALSE),
                                    !.itemLength = t.itemLength,
                                    !.itemOffset = t.itemOffset,
                                    !.passes = @ + 1]
    /\ UNCHANGED <<_autoReconnect, customTransport, _connectionState, _connection,
                   _transport, _pduSize, _reconnectTimer, timeouts, _shouldConnect,
                   race, staleRaces, staleTransports, emitted, last,
                   disconnectCalled, groupDestroyed, call, _items, _readPackets,
                   _skipOptimization, _optimizationGap, planned, readCall,
                   disconnectPromise, jobTimedOut>>

\* a group with some of the items on a Connected endpoint, in
\* _prepareReadPackets with the items sorted
LoopInit ==
    /\ \E sz \in LoopPduSizes :
          /\ ConnectedEndpoint(sz)
          /\ \E places \in SUBSET (1..Len(LoopItems)) :
                /\ _items = Pick(LoopItems, places, 1)
                /\ loop = LoopBegin(sz, Pick(LoopItems, places, 1))
    /\ _readPackets = NullPackets
    /\ \E o \in PlanOptions : /\ _skipOptimization = o.skipOptimization
                              /\ _optimizationGap = o.optimizationGap
    /\ planned = NoPlan
    /\ readCall = NoRead

SpecLoop == LoopInit /\ [][LoopPass]_vars

(***************************************************************************)
(* S7Connection: the PDU references of the jobs in flight                  *)
(***************************************************************************)
\* the concurrency window negotiated at setup, and how many submissions
\* wait in the FIFO queue at most in the model
maxJobs == 3
MaxPending == 2

\* the last reference the counter is followed to after its wrap in the model
MaxReference == 5

\* the reference after r: 16 bits, 0 left out
\* a plausible slip: the counter wraps to 0
RefAfter_withZero(r) == (r + 1) % 65536

RefAfter(r) == IF (r + 1) % 65536 = 0 THEN 1 ELSE (r + 1) % 65536

\* a plausible slip: the counter's value is issued as it is
allocateReference_noSkip(next, outstanding) == next

\* the reference of a new job: the counter's value, or the first one after
\* it that no job in flight holds
RECURSIVE allocateReference(_, _)
allocateReference(next, outstanding) ==
    IF \E i \in 1..Len(outstanding) : outstanding[i] = next
    THEN allocateReference(RefAfter(next), outstanding)
    ELSE next

\* the job of submission n goes in flight with a new reference.  Of a
\* connection the model keeps: outstanding, the references in flight; jobs,
\* the submissions they belong to; pending, the submissions in the queue;
\* submitted, how many there were; dispatched, the order they were sent in;
\* completed, the ones answered
sendJob(c, n) ==
    Only({[c EXCEPT !.outstanding = Append(@, ref), !.nextReference = RefAfter(ref),
                    !.jobs = Append(@, n), !.dispatched = Append(@, n)] :
             ref \in {allocateReference(c.nextReference, c.outstanding)}})

\* a plausible slip: the window is not looked at
submitJob_noWindow(c) ==
    sendJob([c EXCEPT !.submitted = @ + 1], c.submitted + 1)

\* a submission: in flight at once if the window allows, else queued
submitJob(c) ==
    IF Len(c.outstanding) < maxJobs
    THEN sendJob([c EXCEPT !.submitted = @ + 1], c.submitted + 1)
    ELSE [c EXCEPT !.submitted = @ + 1, !.pending = Append(@, c.submitted + 1)]

\* a plausible slip: the queue is not drained when a response arrives
completeJob_noDrain(c, i) ==
    [c EXCEPT !.outstanding = SubSeq(@, 1, i - 1) \o SubSeq(@, i + 1, Len(@)),
              !.jobs = SubSeq(@, 1, i - 1) \o SubSeq(@, i + 1, Len(@)),
              !.completed = @ \cup {c.jobs[i]}]

\* the i-th job in flight is answered; the head of the queue takes its place
completeJob(c, i) ==
    LET c1 == [c EXCEPT !.outstanding =
                            SubSeq(@, 1, i - 1) \o SubSeq(@, i + 1, Len(@)),
                        !.jobs = SubSeq(@, 1, i - 1) \o SubSeq(@, i + 1, Len(@)),
                        !.completed = @ \cup {c.jobs[i]}]
    IN  IF c1.pending # <<>>
        THEN sendJob([c1 EXCEPT !.pending = Tail(@)], Head(c1.pending))
        ELSE c1

\* only the connection's jobs move
JobsOnly ==
    UNCHANGED <<_autoReconnect, customTransport, _connectionState, _transport,
                _pduSize, _reconnectTimer, timeouts, _shouldConnect, race, staleRaces,
                staleTransports, emitted, last, disconnectCalled, groupDestroyed,
                call, _items, _readPackets, _skipOptimization, _optimizationGap, loop,
                planned, readCall, disconnectPromise, jobTimedOut>>

\* a request is handed to the connection
SubmitJob ==
    /\ _connection.connected
    /\ _connection.nextReference >= 65530 \/ _connection.nextReference <= MaxReference
    /\ Len(_connection.outstanding) < maxJobs \/ Len(_connection.pending) < MaxPending
    /\ _connection' = submitJob(_connection)
    /\ JobsOnly

\* the PLC answers one of the jobs in flight, in any order
CompleteJob ==
    /\ \E i \in 1..Len(_connection.outstanding) :
           _connection' = completeJob(_connection, i)
    /\ JobsOnly

\* the job tables the model starts from: a new connection, and connections
\* whose counter is about to wrap, with no job, one job or two jobs of the
\* lap before still unanswered
JobTables ==
    { [nextReference |-> 1, outstanding |-> <<>>],
      [nextReference |-> 65534, outstanding |-> <<>>],
      [nextReference |-> 65534, outstanding |-> <<1>>],
      [nextReference |-> 65534, outstanding |-> <<65535, 2>>] }

JobsInit ==
    /\ \E t \in JobTables :
           ConnectedWith(66, [NewConnection EXCEPT
                                 !.pduSize = 66, !.connected = TRUE,
                                 !.nextReference = t.nextReference,
                                 !.outstanding = t.outstanding,
                                 !.submitted = Len(t.outstanding),
                                 !.jobs = [i \in 1..Len(t.outstanding) |-> i],
                                 !.dispatched = [i \in 1..Len(t.outstanding) |-> i]])
    /\ EmptyGroup

JobsNext == SubmitJob \/ CompleteJob

SpecJobs == JobsInit /\ [][JobsNext]_vars

\* the same where the peer answers: some job in flight is answered as long
\* as there is one
LiveJobs == JobsInit /\ [][JobsNext]_vars /\ WF_vars(CompleteJob)

(***************************************************************************)
(* Claims about the lifecycle                                              *)
(***************************************************************************)
\* the last handler took the endpoint into Connected
EnteredConnected ==
    _connectionState = CONN_CONNECTED /\ last.from # CONN_CONNECTED

\* the user has called disconnect() and has not called connect() since
UserWantsDisconnected == disconnectCalled /\ ~_shouldConnect

\* automatic reconnection is on and the user has never called disconnect()
AutoReconnecting == _autoReconnect > 0 /\ ~disconnectCalled

\* C1: with autoReconnect > 0 and no disconnect() by the user, the endpoint
\* is never Disconnected without a pending reconnect timer, and from
\* Disconnected it always comes back to Connecting.
C1_ReconnectsAfterFailure ==
    /\ []((AutoReconnecting /\ _connectionState = CONN_DISCONNECTED)
            => _reconnectTimer)
    /\ ((AutoReconnecting /\ _connectionState = CONN_DISCONNECTED)
            ~> (_connectionState = CONN_CONNECTING \/ disconnectCalled))

\* C1, witness: after a failure the timer has fired and started a new attempt
C1_Witness ==
    /\ AutoReconnecting
    /\ last.op = "reconnectTimer" /\ last.from = CONN_DISCONNECTED
    /\ _connectionState = CONN_CONNECTING

\* C2: after disconnect() and until the next connect() the endpoint is
\* neither Connecting nor Connected.
C2_NoAttemptAfterUserDisconnect ==
    UserWantsDisconnected => _connectionState = CONN_DISCONNECTED

\* C3: the state becomes Connected only from Connecting, and only by the
\* 'connect' event of the endpoint's S7Connection.
C3_ConnectedOnlyFromConnecting ==
    EnteredConnected =>
        (last.from = CONN_CONNECTING /\ last.op = "connectionConnected")

\* C3, witness: a Connecting endpoint has had its setup acknowledged
C3_Witness ==
    /\ EnteredConnected
    /\ last.op = "connectionConnected" /\ last.from = CONN_CONNECTING
    /\ _connection.connected

\* C4: a Connected endpoint that sees a transport error, a job timeout or a
\* disconnect() call goes to Disconnecting first.
C4_DisconnectingBeforeDisconnected ==
    (/\ last.from = CONN_CONNECTED
     /\ last.op \in {"transportError", "connectionTimeout", "disconnect"})
        => _connectionState = CONN_DISCONNECTING

\* C5, as claimed: every entry into Connected emits 'connect' and 'pdu-size'.
C5_PduSizeOnEveryConnect ==
    EnteredConnected => (Emitted("connect") /\ Emitted("pdu-size"))

\* C5, amended: every entry into Connected emits 'connect'; it emits
\* 'pdu-size', carrying the negotiated size, exactly when that size differs
\* from the size the endpoint held before.
C5_PduSizeOnChange ==
    [][(_connectionState # CONN_CONNECTED /\ _connectionState' = CONN_CONNECTED)
         => /\ \E i \in 1..Len(emitted') : emitted'[i].ev = "connect"
            /\ _pduSize' = _connection'.pduSize
            /\ (_pduSize' # _pduSize) <=>
                   (\E i \in 1..Len(emitted') : emitted'[i].ev = "pdu-size")
            /\ \A i \in 1..Len(emitted') :
                   emitted'[i].ev = "pdu-size" => emitted'[i].arg = _pduSize'
       ]_vars

\* C5, witness: a reconnection negotiated the size the endpoint already
\* held, and 'connect' came without 'pdu-size'
C5_Witness ==
    /\ EnteredConnected
    /\ Emitted("connect") /\ ~Emitted("pdu-size")
    /\ _pduSize = _connection.pduSize

\* the last handler was one of the five calls, made while not Connected
CalledNotConnected ==
    /\ last.op \in {"readVars", "readArea", "writeVars", "writeArea", "writeItems"}
    /\ last.from # CONN_CONNECTED

\* C6: a call of readVars, readArea, writeVars, writeArea or writeItems made
\* while the endpoint is not Connected submits no job; the four methods of
\* the endpoint reject with ERR_NOT_CONNECTED, and so does writeItems on a
\* group that is not destroyed, given at least one tag and as many values
\* as tags.
C6_NotConnectedRejects ==
    CalledNotConnected =>
        /\ last.jobs = 0
        /\ last.op # "writeItems" => last.err = "ERR_NOT_CONNECTED"
        /\ (/\ last.op = "writeItems" /\ ~groupDestroyed
            /\ last.tags >= 1 /\ last.values = last.tags)
               => last.err = "ERR_NOT_CONNECTED"

\* C6, witness: writeItems with two tags and two values was rejected while
\* the endpoint was Connecting
C6_Witness ==
    /\ last.op = "writeItems" /\ last.from = CONN_CONNECTING
    /\ last.tags = 2 /\ last.values = 2 /\ ~groupDestroyed
    /\ last.err = "ERR_NOT_CONNECTED" /\ last.jobs = 0

\* C7: when the promise of a custom transport factory is fulfilled during
\* an attempt, its stream is the endpoint's transport, with the listeners
\* attached and an S7Connection over it.
C7_CustomTransportUsed ==
    (/\ customTransport
     /\ last.op = "transportResolved" /\ last.from = CONN_CONNECTING)
        => (/\ ~_transport.isNull /\ _transport.wired
            /\ ~_connection.isNull
            /\ _connectionState = CONN_CONNECTING)

(***************************************************************************)
(* Claims about readArea and writeArea                                     *)
(***************************************************************************)
\* the least whole number of windows of m bytes that hold n bytes
Ceil(n, m) == (n + m - 1) \div m

\* the byte address and the byte count that job i of the call asks for
JobAddress(i) == call.jobs[i].param[1].address \div 8
JobLength(i) == call.jobs[i].param[1].length

\* the bytes that job i of a writeArea call carries
JobChunk(i) == call.jobs[i].data[1].data

\* the jobs answered with a return code other than DATA_OK
FailedSlices ==
    {i \in 1..Len(call.results) :
        call.results[i] # <<>> /\ call.results[i][1].returnCode # DATA_OK}

\* C8: writeArea submits ceil(data.length / (pduSize - 28)) WriteVar jobs;
\* slice i (from 0) is written at address + i * (pduSize - 28), is at most
\* pduSize - 28 bytes long, and the slices put together are the data.
C8_WriteAreaSlices ==
    call.op = "writeArea" =>
        LET maxPayload == _pduSize - 28
            n == Ceil(Len(call.data), maxPayload)
        IN  /\ Len(call.jobs) = n
            /\ \A i \in 1..Len(call.jobs) :
                   /\ call.jobs[i].fn = "WriteVar"
                   /\ JobAddress(i) = call.address + (i - 1) * maxPayload
                   /\ Len(JobChunk(i)) <= maxPayload
                   /\ JobLength(i) = Len(JobChunk(i))
            /\ BufferConcat([i \in 1..Len(call.jobs) |-> JobChunk(i)]) = call.data

\* C9: readArea submits ceil(length / (pduSize - 18)) ReadVar jobs whose
\* windows follow one another without gap or overlap from address to
\* address + length; the buffer it resolves with is the answers put
\* together in the order of the addresses, whatever the order of arrival.
C9_ReadAreaWindows ==
    call.op = "readArea" =>
        LET maxPayload == _pduSize - 18
            n == Len(call.jobs)
        IN  /\ n = Ceil(call.length, maxPayload)
            /\ \A i \in 1..n :
                   /\ call.jobs[i].fn = "ReadVar" /\ Len(call.jobs[i].param) = 1
                   /\ JobLength(i) \in 1..maxPayload
                   /\ JobAddress(i) = IF i = 1 THEN call.address
                                      ELSE JobAddress(i - 1) + JobLength(i - 1)
            /\ n > 0 => JobAddress(n) + JobLength(n) = call.address + call.length
            /\ call.outcome = "resolved" =>
                   /\ call.value = BufferConcat([i \in 1..n |-> call.results[i][1].data])
                   /\ call.value = [k \in 1..call.length |->
                                       PlcByte(call.address + k - 1)]

\* C9, witness: three windows answered last first, and the call resolved
C9_Witness ==
    /\ call.op = "readArea" /\ call.outcome = "resolved"
    /\ Len(call.jobs) = 3 /\ call.arrived = <<3, 2, 1>>
    /\ Len(call.value) = call.length

\* C10: once every slice of a readArea or writeArea call is answered and
\* some slice has a return code other than DATA_OK, the call rejects with
\* the return code of a failed slice (the first of them by address) as the
\* kind of the error, and returns no data.
C10_FailedSliceRejects ==
    (/\ call.op \in {"readArea", "writeArea"}
     /\ call.outcome \in {"resolved", "rejected"}
     /\ FailedSlices # {})
        => /\ call.outcome = "rejected"
           /\ call.kind = "returnCode"
           /\ \E i \in FailedSlices :
                  /\ \A j \in FailedSlices : i <= j
                  /\ call.code = call.results[i][1].returnCode
           /\ call.value = <<>>

\* C10, witness: of three windows read the first went well, the other two
\* failed with different codes, and the call rejected with the code of the
\* second
C10_Witness ==
    /\ call.op = "readArea" /\ call.outcome = "rejected"
    /\ Len(call.jobs) = 3 /\ FailedSlices = {2, 3}
    /\ call.results[2][1].returnCode = RET_INVALID_ADDRESS
    /\ call.results[3][1].returnCode = RET_OBJECT_NOT_FOUND
    /\ call.code = RET_INVALID_ADDRESS /\ call.value = <<>>

(***************************************************************************)
(* Claims about the read plan                                              *)
(***************************************************************************)
\* the bytes the parts of a packet take in the response, 4 of header each
RECURSIVE PartsResLength(_)
PartsResLength(packet) ==
    IF packet = <<>> THEN 0
    ELSE Head(packet).length + 4 + PartsResLength(Tail(packet))

Covered(item, packets) ==
    \A b \in item.offset..(item.offset + item.byteLength - 1) :
        \E h \in PlanSlots(packets) :
            /\ packets[h[1]][h[2]].items[h[3]].name = item.name
            /\ packets[h[1]][h[2]].address <= b
            /\ b < packets[h[1]][h[2]].address + packets[h[1]][h[2]].length

\* C12: in every plan built, the parts that list an item cover the item
\* completely, every (part, item) pair has its copy descriptor, and the
\* planner does not fail with "Couldn't calculate offsets"
C12_PartsCoverItems ==
    planned.done =>
        /\ planned.err # "Couldn't calculate offsets"
        /\ \A t \in 1..Len(_items) : Covered(_items[t], planned.packets)
        /\ \A h \in PlanSlots(planned.packets) :
               ~planned.packets[h[1]][h[2]].offsets[h[3]].none

\* C13: in every plan built, every item listed in a part has the area and
\* the DB number of the part: items of two areas or two DBs never share a
\* part, whatever the gap
C13_PartsOfOneAreaAndDb ==
    planned.done =>
        \A h \in PlanSlots(planned.packets) :
            /\ planned.packets[h[1]][h[2]].items[h[3]].areaCode
                   = planned.packets[h[1]][h[2]].area
            /\ planned.packets[h[1]][h[2]].items[h[3]].dbNumber
                   = planned.packets[h[1]][h[2]].db

\* a plan with the gap of 10 in which items of one DB share a part while an
\* item of another DB, one byte from them, has a part of its own
C13_Witness ==
    /\ planned.done
    /\ _optimizationGap = 10
    /\ \E h \in PlanSlots(planned.packets) :
           /\ Len(planned.packets[h[1]][h[2]].items) > 1
           /\ planned.packets[h[1]][h[2]].db = 1
    /\ \E h \in PlanSlots(planned.packets) :
           /\ planned.packets[h[1]][h[2]].db = 2
           /\ Len(planned.packets[h[1]][h[2]].items) = 1

\* the packets and the current part as a turn of the planner's loop left
\* them: what the next turn found, or the finished plan
PacketsAfter(k) ==
    IF k < Len(planned.steps) THEN planned.steps[k + 1].packet
    ELSE Len(planned.packets)

PartsAfter(k) ==
    IF k < Len(planned.steps) THEN planned.steps[k + 1].parts
    ELSE Len(planned.packets[Len(planned.packets)])

PartAfter(k) ==
    IF k < Len(planned.steps) THEN planned.steps[k + 1].part
    ELSE planned.packets[Len(planned.packets)][Len(planned.packets[Len(planned.packets)])]

\* the turn that starts item b, right after item a in the sorted order, with
\* a and b near each other in one area and DB, optimization on, and all of
\* b fitting in what is left of the response of the current packet
NearAndFits(e) ==
    /\ e.itemOffset = e.item.offset /\ e.itemLength = e.item.byteLength
    /\ e.lastItem # <<>>
    /\ e.hadPacket
    /\ ~_skipOptimization
    /\ e.lastItem[1].areaCode = e.item.areaCode
    /\ e.item.areaCode \in {AREA_DB, AREA_INPUTS, AREA_OUTPUTS, AREA_FLAGS}
    /\ e.lastItem[1].dbNumber = e.item.dbNumber
    /\ e.item.offset - (e.lastItem[1].offset + e.lastItem[1].byteLength) < _optimizationGap
    /\ (e.lastItem[1].offset + e.lastItem[1].byteLength) - e.item.offset < _optimizationGap
    /\ e.pktResLength
         + (IF e.item.offset + e.item.byteLength - e.part.address > e.part.length
            THEN e.item.offset + e.item.byteLength - e.part.address - e.part.length
            ELSE 0)
         <= _pduSize - 18

\* the names of the items a part lists
ItemsOf(part) == {part.items[k].name : k \in 1..Len(part.items)}

\* C14: an item b that follows a in the sorted order, is near a in the same
\* area (DB, inputs, outputs or flags) and DB, and fits entirely in the
\* response left in the current packet, is added to the part that holds a:
\* no part and no packet is opened, and the part becomes
\* max(old length, b.offset + b.byteLength - part.address) bytes long
C14_NearItemJoinsPart ==
    planned.done =>
        \A k \in 1..Len(planned.steps) :
            NearAndFits(planned.steps[k]) =>
                /\ planned.steps[k].lastItem[1].name \in ItemsOf(planned.steps[k].part)
                /\ ItemsOf(PartAfter(k))
                       = ItemsOf(planned.steps[k].part) \cup {planned.steps[k].item.name}
                /\ PacketsAfter(k) = planned.steps[k].packet
                /\ PartsAfter(k) = planned.steps[k].parts
                /\ PartAfter(k).address = planned.steps[k].part.address
                /\ PartAfter(k).length
                       = IF planned.steps[k].item.offset + planned.steps[k].item.byteLength
                                - planned.steps[k].part.address > planned.steps[k].part.length
                         THEN planned.steps[k].item.offset + planned.steps[k].item.byteLength
                                - planned.steps[k].part.address
                         ELSE planned.steps[k].part.length

\* a plan in which a near item made its part longer, and one in which a
\* near item lay within the part already
C14_Witness ==
    /\ planned.done
    /\ \E k \in 1..Len(planned.steps) :
           /\ NearAndFits(planned.steps[k])
           /\ PartAfter(k).length > planned.steps[k].part.length
    /\ \E k \in 1..Len(planned.steps) :
           /\ NearAndFits(planned.steps[k])
           /\ PartAfter(k).length = planned.steps[k].part.length

\* C15: a group of one item of L > pduSize - 36 bytes is planned as
\* ceil(L / (pduSize - 36)) packets of one part each; the parts start at the
\* item's offset, follow each other without gap or overlap, and end where
\* the item ends
C15_BigItemSplit ==
    (planned.done /\ Len(_items) = 1 /\ _items[1].byteLength > _pduSize - 36) =>
        /\ Len(planned.packets) = Ceil(_items[1].byteLength, _pduSize - 36)
        /\ \A i \in 1..Len(planned.packets) :
               /\ Len(planned.packets[i]) = 1
               /\ planned.packets[i][1].length > 0
               /\ planned.packets[i][1].address
                      = IF i = 1 THEN _items[1].offset
                        ELSE planned.packets[i - 1][1].address
                               + planned.packets[i - 1][1].length
        /\ planned.packets[Len(planned.packets)][1].address
             + planned.packets[Len(planned.packets)][1].length
               = _items[1].offset + _items[1].byteLength

\* one item split over three packets
C15_Witness ==
    /\ planned.done /\ Len(_items) = 1
    /\ _items[1].byteLength > _pduSize - 36
    /\ Len(planned.packets) = 3

\* the bytes the items take in a response with one part for each item
RECURSIVE ItemsResLength(_)
ItemsResLength(items) ==
    IF items = <<>> THEN 0
    ELSE Head(items).byteLength + 4 + ItemsResLength(Tail(items))

\* the items, one part each, fit the request and the response of one packet
FitsOnePdu ==
    /\ _items # <<>>
    /\ 12 + 12 * Len(_items) <= _pduSize - 18
    /\ 14 + ItemsResLength(_items) <= _pduSize - 18

\* the item of a turn is near the item before it, as _isOptimizable has it
Near(e) ==
    /\ ~_skipOptimization
    /\ e.lastItem # <<>>
    /\ e.lastItem[1].areaCode = e.item.areaCode
    /\ e.item.areaCode \in {AREA_DB, AREA_INPUTS, AREA_OUTPUTS, AREA_FLAGS}
    /\ e.lastItem[1].dbNumber = e.item.dbNumber
    /\ e.item.offset - (e.lastItem[1].offset + e.lastItem[1].byteLength) < _optimizationGap
    /\ (e.lastItem[1].offset + e.lastItem[1].byteLength) - e.item.offset < _optimizationGap

\* n bytes of the item of a turn can be put into the packet the turn found:
\* into its last part if the item is near, or into one more part
RoomFor(e, n) ==
    \/ /\ Near(e)
       /\ e.pktResLength + (e.itemOffset + n) - (e.part.address + e.part.length)
              <= _pduSize - 18
    \/ /\ e.pktReqLength + 12 <= _pduSize - 18
       /\ e.pktResLength + 4 + n <= _pduSize - 18

\* a turn that opens a packet while the planner holds one
OpensSecondPacket(e) == e.branch = "new-packet" /\ e.hadPacket

\* a turn that opens a packet after the turn before it dropped the one it
\* had filled
OpensNextPacket(e) == e.branch = "new-packet" /\ ~e.hadPacket /\ e.packet > 0

C18_CachedPlanIsCurrent ==
    /\ ~_readPackets.isNull =>
           _readPackets.packets
               = _prepareReadPackets(PlanParams(World, Group), _items).packets
    /\ last.op \in {"addItems", "removeItems", "destroy"} => _readPackets.isNull
    /\ (~groupDestroyed /\ PduSizeEmitted(emitted)) => _readPackets.isNull

\* the parts of the followed call that the PLC answered with a bad code
FailedParts ==
    {h \in UNION {{<<i, j>> : j \in 1..Len(readCall.results[i])} :
                     i \in 1..Len(readCall.results)} :
        readCall.results[h[1]][h[2]].returnCode # DATA_OK}

\* the first of them by packet, then by part
FirstFailedPart ==
    CHOOSE h \in FailedParts :
        \A g \in FailedParts : h[1] < g[1] \/ (h[1] = g[1] /\ h[2] <= g[2])

\* the call followed has gone on after its await
ReadSettled ==
    /\ readCall.outcome \in {"resolved", "rejected"}
    /\ readCall.results # <<>>

\* C19: when a part of a packet was answered with a code other than DATA_OK,
\* readAllItems rejects with that code and with the area, DB, address and
\* length of the part, the first such part by packet and then by part, and
\* returns no values
C19_FirstFailedPartRejects ==
    (ReadSettled /\ FailedParts # {}) =>
        /\ readCall.outcome = "rejected"
        /\ readCall.kind = "returnCode"
        /\ readCall.code
               = readCall.results[FirstFailedPart[1]][FirstFailedPart[2]].returnCode
        /\ readCall.context
               = [area |-> readCall.jobs[FirstFailedPart[1]].param[FirstFailedPart[2]].area,
                  db |-> readCall.jobs[FirstFailedPart[1]].param[FirstFailedPart[2]].db,
                  address |-> readCall.jobs[FirstFailedPart[1]].param[FirstFailedPart[2]].address \div 8,
                  length |-> readCall.jobs[FirstFailedPart[1]].param[FirstFailedPart[2]].length]
        /\ readCall.value = <<>>

(***************************************************************************)
(* Claims about writeItems                                                 *)
(***************************************************************************)
\* the last handler was a writeItems call with a tag that takes more than
\* the payload of a write request: 16 + byteLengthWithFill > pduSize - 12
WroteTooBig ==
    /\ last.op = "writeItems"
    /\ \E i \in 1..Len(last.args) :
           16 + last.args[i].byteLengthWithFill > _pduSize - 12

\* the call got as far as its tags: the group was not destroyed, there were
\* as many values as tags, and the endpoint was Connected
ReachedTags ==
    /\ last.err # "Already destroyed"
    /\ last.tags = last.values
    /\ last.from = CONN_CONNECTED

\* C20: a writeItems call with a tag too big for one request submits no
\* WriteVar job, neither for that tag nor for the tags before it, and
\* rejects with ERR_ITEM_TOO_BIG (unless the call is rejected before its
\* tags are looked at)
C20_TooBigFailsFast ==
    WroteTooBig =>
        /\ last.jobs = 0
        /\ last.err # "none"
        /\ ReachedTags => last.err = "ERR_ITEM_TOO_BIG"

\* a call on a Connected endpoint whose second tag is too big
C20_Witness ==
    /\ WroteTooBig /\ ReachedTags
    /\ Len(last.args) = 2
    /\ 16 + last.args[1].byteLengthWithFill <= _pduSize - 12
    /\ last.err = "ERR_ITEM_TOO_BIG"

(***************************************************************************)
(* Claims about writeItems on a group                                      *)
(***************************************************************************)
\* the last handler was a writeItems call that was accepted: it is the call
\* being followed
WriteAccepted ==
    last.op = "writeItems" /\ last.err = "none" /\ call.op = "writeItems"

\* the requests of the WriteVar jobs submitted, one packet after the other,
\* and the buffers that go with them
WrittenParams == BufferConcat([i \in 1..Len(call.jobs) |-> call.jobs[i].param])
WrittenData == BufferConcat([i \in 1..Len(call.jobs) |-> call.jobs[i].data])

\* the bytes a packet takes of the payload: 16 and the buffer for each item
RECURSIVE WriteLength(_)
WriteLength(data) ==
    IF data = <<>> THEN 0
    ELSE 16 + Len(Head(data).data) + WriteLength(Tail(data))

\* the request is the whole of the tag: its area and data block, the S7-ANY
\* bit address of its first byte (of its bit for a bit tag), and all its bytes
WholeOf(tag, param, data) ==
    /\ param.area = tag.areaCode /\ param.db = tag.dbNumber
    /\ param.address = 8 * tag.offset + tag.bitOffset
    /\ param.length = tag.byteLengthWithFill
    /\ Len(data.data) = tag.byteLengthWithFill
    /\ data.transportSize = tag.writeTransportCode

\* C21: for every accepted writeItems call, the requests of its packets,
\* taken packet after packet, are the tags of the call in their order, each
\* tag once and whole; no packet is empty; and the items of every packet
\* take at most pduSize - 12 bytes, 16 + byteLengthWithFill each.
C21_WritePackets ==
    WriteAccepted =>
        /\ Len(WrittenParams) = Len(last.args)
        /\ \A k \in 1..Len(WrittenParams) :
               WholeOf(last.args[k], WrittenParams[k], WrittenData[k])
        /\ \A i \in 1..Len(call.jobs) :
               /\ call.jobs[i].fn = "WriteVar"
               /\ call.jobs[i].param # <<>>
               /\ Len(call.jobs[i].data) = Len(call.jobs[i].param)
               /\ WriteLength(call.jobs[i].data) <= _pduSize - 12

\* an accepted call of four tags, one of them a bit, in two packets of two
C21_Witness ==
    /\ WriteAccepted
    /\ Len(last.args) = 4
    /\ Len(call.jobs) = 2
    /\ Len(call.jobs[1].param) = 2 /\ Len(call.jobs[2].param) = 2
    /\ \E k \in 1..4 : last.args[k].writeTransportCode = "BBIT"

\* a step of a writeItems call: the method up to its await, an answer to
\* one of its jobs, or the method after its await
WriteStep == call'.op = "writeItems" /\ call' # call

\* some tag of the last call is not an item of the group
NeverAdded ==
    \E k \in 1..Len(last.args) :
        \A i \in 1..Len(_items) : _items[i].name # last.args[k].name

\* nothing is wrong with the last call but that: the group is alive, there
\* are as many values as tags, the endpoint was Connected, and every tag is
\* an address whose bytes fit one request
WellFormedWrite ==
    /\ ~groupDestroyed
    /\ last.tags = last.values
    /\ last.from = CONN_CONNECTED
    /\ \A k \in 1..Len(last.args) :
           /\ last.args[k] # NotATag
           /\ 16 + last.args[k].byteLengthWithFill <= _pduSize - 12

\* C22: no step of a writeItems call, accepted or rejected, before or after
\* its await, changes the items of the group or its cached read plan; and a
\* call that is otherwise in order is accepted and submits its jobs also
\* when some of its tags were never added to the group.
C22_WriteLeavesGroup ==
    [][WriteStep =>
          /\ _items' = _items
          /\ _readPackets' = _readPackets
          /\ (last'.op = "writeItems" /\ NeverAdded' /\ WellFormedWrite')
                 => (last'.err = "none" /\ last'.jobs > 0)]_vars

\* an accepted call with a tag the group does not have, on a group that has
\* other items and a cached plan
C22_Witness ==
    /\ WriteAccepted /\ NeverAdded
    /\ _items # <<>>
    /\ ~_readPackets.isNull
    /\ \E k \in 1..Len(last.args) : \E i \in 1..Len(_items) :
           _items[i].name = last.args[k].name

(***************************************************************************)
(* Claims about a group on an endpoint that has not connected yet          *)
(***************************************************************************)
\* the last handler was a readAllItems call of a live group on an endpoint
\* that has no PDU size
ReadWithoutPduSize ==
    last.op = "readAllItems" /\ _pduSize = PDU_NULL /\ ~groupDestroyed

\* C23: readAllItems on an endpoint that has never negotiated a PDU size
\* rejects with ERR_ILLEGAL_STATE, submits no job, and leaves the group
\* without a cached plan (the group being alive: a destroyed group has no
\* endpoint and rejects every call).
C23_NoPduSizeRejects ==
    ReadWithoutPduSize =>
        /\ readCall.outcome = "rejected"
        /\ readCall.kind = "ERR_ILLEGAL_STATE"
        /\ last.err = "ERR_ILLEGAL_STATE"
        /\ last.jobs = 0 /\ readCall.jobs = <<>>
        /\ _readPackets.isNull

\* such a call on a group that has items, while the endpoint is Connecting
C23_Witness ==
    /\ ReadWithoutPduSize
    /\ _items # <<>>
    /\ _connectionState = CONN_CONNECTING
    /\ readCall.kind = "ERR_ILLEGAL_STATE"

(***************************************************************************)
(* Claims about connect() and disconnect()                                 *)
(***************************************************************************)
\* the step starts a transport attempt: _connect got past its state check,
\* emitted 'connecting' and called _getTransport
AttemptStarted ==
    \E i \in 1..Len(emitted') : emitted'[i].ev = "connecting"

\* the step leaves the attempt in flight as it is: the race, the transport
\* and the S7Connection
AttemptUntouched ==
    /\ race' = race /\ staleRaces' = staleRaces
    /\ staleTransports' = staleTransports
    /\ _transport' = _transport /\ _connection' = _connection
    /\ _connectionState' = _connectionState

\* C24: connect() on a Connected endpoint resolves at once, starts no
\* attempt and emits nothing; connect() on a Connecting endpoint stays
\* pending on the events of the attempt in flight, which it leaves as it
\* is, and starts no other; the step that takes the endpoint from Connecting
\* to Connected emits 'connect', which the pending call listens for; and no
\* step that begins and ends in Connecting starts a transport attempt.
C24_ConnectIdempotent ==
    [][/\ (last'.op = "connect" /\ _connectionState = CONN_CONNECTED)
              => /\ last'.err = "resolved"
                 /\ ~AttemptStarted /\ AttemptUntouched
                 /\ emitted' = <<>> /\ _reconnectTimer' = _reconnectTimer
       /\ (last'.op = "connect" /\ _connectionState = CONN_CONNECTING)
              => /\ last'.err = "pending"
                 /\ ~AttemptStarted /\ AttemptUntouched
                 /\ emitted' = <<>>
       /\ (_connectionState = CONN_CONNECTING /\ _connectionState' = CONN_CONNECTED)
              => \E i \in 1..Len(emitted') : emitted'[i].ev = "connect"
       /\ (_connectionState = CONN_CONNECTING /\ _connectionState' = CONN_CONNECTING)
              => ~AttemptStarted]_vars

\* connect() was called while an attempt was in flight, and is pending on it
C24_Witness ==
    /\ last.op = "connect" /\ last.from = CONN_CONNECTING
    /\ last.err = "pending"
    /\ _connectionState = CONN_CONNECTING /\ race = "pending"

\* C25: disconnect() on a Disconnected endpoint resolves at once, leaves no
\* reconnect timer pending, emits no event and leaves the endpoint
\* Disconnected.
C25_DisconnectWhenDisconnected ==
    (last.op = "disconnect" /\ last.from = CONN_DISCONNECTED) =>
        /\ last.err = "resolved"
        /\ ~_reconnectTimer
        /\ emitted = <<>>
        /\ _connectionState = CONN_DISCONNECTED

\* disconnect() was called on a Disconnected endpoint whose reconnect timer
\* was pending
C25_Witness ==
    /\ last.op = "disconnect" /\ last.from = CONN_DISCONNECTED
    /\ last.timer
    /\ last.err = "resolved" /\ ~_reconnectTimer

\* every disconnect() call that waits for an event comes to hear one
DisconnectSettles ==
    (disconnectPromise = "pending") ~> (disconnectPromise # "pending")

\* C26: every disconnect() call settles, and a call made on a Connecting or
\* Connected endpoint is resolved, by the 'disconnect' event that tells the
\* transport is gone (given that a transport asked to end emits 'close' or
\* 'end').
C26_DisconnectResolves ==
    (disconnectPromise = "pending") ~> (disconnectPromise = "resolved")

(***************************************************************************)
(* C27                                                                     *)
(***************************************************************************)
\* the endpoint as the constructor leaves it when it starts no attempt
NoAttemptStarted ==
    /\ _connectionState = CONN_DISCONNECTED
    /\ _connection.isNull /\ _transport.isNull
    /\ race = "none" /\ ~_shouldConnect
    /\ ~_reconnectTimer
    /\ emitted = <<>>

\* C27: with autoReconnect = 0 the constructor starts no attempt, no step
\* leaves a reconnect timer pending, and the state leaves Disconnected only
\* in a connect() call.
C27_NoAutoReconnect ==
    /\ (_autoReconnect = 0 => NoAttemptStarted)
    /\ [][_autoReconnect = 0 =>
             /\ ~_reconnectTimer'
             /\ (_connectionState = CONN_DISCONNECTED
                   /\ _connectionState' # CONN_DISCONNECTED
                     => last'.op = "connect")]_vars

\* C27, witness: with autoReconnect = 0 an attempt the user asked for has
\* failed, the user still wants the connection, and nothing is scheduled
C27_Witness ==
    /\ _autoReconnect = 0
    /\ _shouldConnect
    /\ last.op \in {"transportRejected", "transportError", "connectionError"}
    /\ last.from # CONN_DISCONNECTED
    /\ _connectionState = CONN_DISCONNECTED
    /\ ~_reconnectTimer

(***************************************************************************)
(* C28                                                                     *)
(***************************************************************************)
\* the last handler was a read or write call made after a job timed out
\* and before the next 'connect'
CalledAfterTimeout ==
    /\ jobTimedOut
    /\ last.op \in {"readVars", "readArea", "writeVars", "writeArea", "writeItems"}

\* C28: when the S7Connection reports a timed-out job the endpoint is no
\* longer Connected, its S7Connection is destroyed and its transport was
\* asked to end; from then until the next 'connect' the endpoint is not
\* Connected, and readVars, readArea, writeVars, writeArea and a well-formed
\* writeItems submit no job and reject with ERR_NOT_CONNECTED.
C28_TimeoutDisconnects ==
    /\ last.op = "connectionTimeout" =>
          /\ _connectionState = CONN_DISCONNECTED
          /\ _connection.isNull
          /\ ~_transport.isNull /\ _transport.ended
    /\ jobTimedOut => ~isConnected(World)
    /\ CalledAfterTimeout =>
          /\ last.jobs = 0
          /\ last.op # "writeItems" => last.err = "ERR_NOT_CONNECTED"
          /\ (/\ last.op = "writeItems" /\ ~groupDestroyed
              /\ last.tags >= 1 /\ last.values = last.tags)
                 => last.err = "ERR_NOT_CONNECTED"

\* C28, witness: a readArea call is rejected on an endpoint that was
\* Connected, had a job time out, and whose transport has not closed yet
C28_Witness ==
    /\ jobTimedOut
    /\ _pduSize # PDU_NULL
    /\ last.op = "readArea" /\ last.err = "ERR_NOT_CONNECTED"
    /\ ~_transport.isNull /\ _transport.ended

(***************************************************************************)
(* C29                                                                     *)
(***************************************************************************)
\* a and b lie in one area among DB, inputs, outputs and flags and one DB,
\* start at the same byte and bit, and a is the longer one
CoversFromStart(a, b) ==
    /\ a.areaCode = b.areaCode
    /\ a.areaCode \in {AREA_INPUTS, AREA_OUTPUTS, AREA_FLAGS, AREA_DB}
    /\ a.dbNumber = b.dbNumber
    /\ a.offset = b.offset /\ a.bitOffset = b.bitOffset
    /\ a.byteLength > b.byteLength

\* the first turn of the planner's loop over the item of a name
FirstTurn(name) ==
    CHOOSE k \in 1..Len(planned.steps) :
        /\ planned.steps[k].item.name = name
        /\ \A j \in 1..(k - 1) : planned.steps[j].item.name # name

\* C29: with optimization on, when item a covers item b from the same
\* start, a is placed before b, and b is put whole into a part that lists
\* a: the turn of b opens no packet and no part and leaves the part as
\* long as it was.
C29_SameStartCoalesces ==
    (planned.done /\ ~_skipOptimization) =>
        \A i, j \in 1..Len(_items) :
            CoversFromStart(_items[i], _items[j]) =>
                LET ka == FirstTurn(_items[i].name)
                    kb == FirstTurn(_items[j].name)
                IN  /\ ka < kb
                    /\ planned.steps[kb].complete
                    /\ _items[i].name \in ItemsOf(PartAfter(kb))
                    /\ _items[j].name \in ItemsOf(PartAfter(kb))
                    /\ PacketsAfter(kb) = planned.steps[kb].packet
                    /\ PartsAfter(kb) = planned.steps[kb].parts
                    /\ PartAfter(kb).length = planned.steps[kb].part.length

(***************************************************************************)
(* C30                                                                     *)
(***************************************************************************)
\* C30: the references of the jobs in flight are 16-bit numbers other than
\* 0 and no two jobs in flight have the same reference, before and after
\* the counter wraps.
C30_ReferencesUnique ==
    \A i \in 1..Len(_connection.outstanding) :
        /\ _connection.outstanding[i] \in 1..65535
        /\ \A j \in 1..Len(_connection.outstanding) :
               i # j => _connection.outstanding[i] # _connection.outstanding[j]

\* C30, witness: after the wrap the counter has passed 0 and the reference
\* of a job still in flight
C30_Witness ==
    _connection.outstanding = <<65535, 2, 3>>

(***************************************************************************)
(* C31                                                                     *)
(***************************************************************************)
\* the submissions the model can number
JobNumbers == 1..16

\* the window is kept, a submission waits only while the window is full,
\* the queue holds the latest submissions in their order, and the jobs were
\* sent in the order they were submitted
WindowKept ==
    /\ Len(_connection.outstanding) <= maxJobs
    /\ _connection.pending # <<>> => Len(_connection.outstanding) = maxJobs
    /\ _connection.dispatched = [n \in 1..Len(_connection.dispatched) |-> n]
    /\ _connection.pending
           = [k \in 1..Len(_connection.pending) |-> Len(_connection.dispatched) + k]
    /\ _connection.submitted = Len(_connection.dispatched) + Len(_connection.pending)
    /\ _connection.submitted \in {0} \cup JobNumbers

\* C31: at most maxJobs jobs are in flight however many are submitted; the
\* submissions beyond the window wait in a queue and are sent in the order
\* they were submitted; and when the peer answers, every submitted job is
\* completed in the end.
C31_WindowAndQueue ==
    /\ []WindowKept
    /\ \A n \in JobNumbers :
           (_connection.submitted >= n) ~> (n \in _connection.completed)

\* C31, witness: the window is full, two submissions wait behind it, and
\* jobs that waited before them have been sent and answered
C31_Witness ==
    /\ Len(_connection.outstanding) = maxJobs
    /\ Len(_connection.pending) = 2
    /\ \E n \in _connection.completed : n > maxJobs

(***************************************************************************)
(* C32                                                                     *)
(***************************************************************************)
\* the requests readAllItems builds from a plan, one ReadVar job per packet
RequestsOf(packets) ==
    [i \in 1..Len(packets) |->
        [fn |-> "ReadVar",
         param |-> [j \in 1..Len(packets[i]) |-> S7AnyParam(packets[i][j])],
         data |-> <<>>]]

\* the tags of the items a plan lists
TagsOf(packets) ==
    UNION {UNION {ItemsOf(packets[i][j]) : j \in 1..Len(packets[i])} :
              i \in 1..Len(packets)}

\* C32: when a readAllItems call goes on after its await, the plan it reads
\* its responses along is the plan its requests were built from, whatever
\* happened to the group meanwhile: it does not fail on a plan that is gone,
\* and it maps only items its own requests have read.
C32_ScattersWithOwnPlan ==
    [][(readCall.outcome = "pending" /\ readCall'.outcome # "pending") =>
          /\ ~_readPackets.isNull
          /\ RequestsOf(_readPackets.packets) = readCall.jobs
          /\ readCall'.kind # "TypeError"
          /\ \A t \in 1..Len(readCall'.value) :
                 readCall'.value[t].tag \in TagsOf(_readPackets.packets)]_vars

(***************************************************************************)
(* C33                                                                     *)
(***************************************************************************)
\* the step is the late outcome of a superseded attempt or transport: the
\* race of an earlier _connect settles, or a transport destroyed earlier
\* emits its 'close'
SupersededOutcome ==
    /\ last'.op \in {"staleRaceSettled", "staleTransportClose"}
    /\ staleRaces' < staleRaces \/ staleTransports' < staleTransports

\* C33: the late outcome of a superseded attempt or transport leaves a
\* Connecting or Connected endpoint as it is: its state, its transport and
\* its S7Connection do not change.
C33_SupersededOutcomesIgnored ==
    [][(/\ SupersededOutcome
        /\ _connectionState \in {CONN_CONNECTING, CONN_CONNECTED})
          => /\ _connectionState' = _connectionState
             /\ _transport' = _transport
             /\ _connection' = _connection]_vars

(***************************************************************************)
(* C34                                                                     *)
(***************************************************************************)
\* C34: at most one reconnection timeout is pending, the one the handle
\* this._reconnectTimer stands for, and none is pending while the endpoint
\* is Connected.
C34_OneReconnectTimer ==
    /\ timeouts <= 1
    /\ timeouts = (IF _reconnectTimer THEN 1 ELSE 0)
    /\ _connectionState = CONN_CONNECTED => timeouts = 0

\* C34, witness: an endpoint whose attempt failed with a timer already
\* pending has scheduled the reconnection again, and one timeout is pending
C34_Witness ==
    /\ last.timer /\ last.op \in {"transportRejected", "transportError"}
    /\ _shouldConnect /\ _autoReconnect > 0
    /\ _reconnectTimer /\ timeouts = 1

(***************************************************************************)
(* C35                                                                     *)
(***************************************************************************)
\* C35: whenever isConnected is true the endpoint holds an S7Connection, a
\* transport and the PDU size that connection negotiated; a readVars or
\* writeVars call that passes the Connected check submits its job and never
\* fails on a missing connection; and the state is Connected when 'connect'
\* is emitted.
C35_ConnectedHoldsConnection ==
    /\ isConnected(World) =>
          /\ ~_connection.isNull /\ ~_transport.isNull
          /\ _pduSize = _connection.pduSize
    /\ last.op \in {"readVars", "writeVars"} =>
          /\ last.err \in {"none", "ERR_NOT_CONNECTED"}
          /\ last.err = "none" <=> isConnected(World)
    /\ Emitted("connect") => isConnected(World)

\* C35, witness: readVars has submitted its job on a Connected endpoint
\* that holds the connection and the PDU size it negotiated
C35_Witness ==
    /\ isConnected(World) /\ last.op = "readVars" /\ last.err = "none"
    /\ ~_connection.isNull /\ _pduSize = _connection.pduSize
    /\ _pduSize # PDU_NULL

(***************************************************************************)
(* C36                                                                     *)
(***************************************************************************)
\* C36: when 'pdu-size' is delivered to its listeners, endpoint.pduSize
\* already returns the size the event carries, so that a plan built in a
\* listener is built for the new size.
C36_PduSizeCurrentOnEvent ==
    \A i \in 1..Len(emitted) :
        emitted[i].ev = "pdu-size" => emitted[i].current

(***************************************************************************)
(* C37                                                                     *)
(***************************************************************************)
\* the while loop of _prepareReadPackets has made a pass
LoopPassed == loop'.passes = loop.passes + 1

\* C37: every pass of the while loop of _prepareReadPackets either
\* completes the current item or consumes at least one byte of it, whatever
\* non-zero PDU size the endpoint has, so that the call terminates.
C37_EveryPassProgresses ==
    [][LoopPassed =>
          \/ loop'.item = loop.item + 1
          \/ /\ loop'.item = loop.item
             /\ loop'.itemLength < loop.itemLength]_vars

(***************************************************************************)
(* C38                                                                     *)
(***************************************************************************)
\* C38: when readAllItems rejects, the value of no item has been decoded
\* and no values are returned; the values are decoded only when every part
\* of every packet was answered with DATA_OK and copied into its items.
C38_ValuesOnlyAfterAllChecked ==
    ReadSettled =>
        /\ readCall.outcome = "rejected" =>
               (readCall.updated = {} /\ readCall.value = <<>>)
        /\ readCall.updated # {} =>
               /\ readCall.outcome = "resolved" /\ FailedParts = {}
               /\ ~_readPackets.isNull
               /\ readCall.copied = PlanSlots(_readPackets.packets)

\* C38, witness: a call rejects for its second packet after the parts of
\* the first were copied into the buffers of their items, and no value was
\* decoded
C38_Witness ==
    /\ ReadSettled /\ readCall.outcome = "rejected" /\ readCall.kind = "returnCode"
    /\ readCall.copied # {} /\ readCall.updated = {}
    /\ Len(readCall.results) > 1
    /\ readCall.results[1][1].returnCode = DATA_OK

(***************************************************************************)
(* C39                                                                     *)
(***************************************************************************)
\* C39: addItems is all-or-nothing: a call that throws for one of its tags
\* leaves the items of the group as they were before the call.
C39_AddItemsAllOrNothing ==
    [][(last'.op = "addItems" /\ last'.err # "none") => _items' = _items]_vars

(***************************************************************************)
(* C40                                                                     *)
(***************************************************************************)
\* C40: the cached plan is absent or complete: after a readAllItems call in
\* which _prepareReadPackets has thrown no plan is cached, a cached plan has
\* the copy descriptor of every item of every part, and requests are sent
\* only along such a plan.
C40_CachedPlanAbsentOrComplete ==
    /\ (last.op = "readAllItems"
          /\ last.err \in {"ERR_ILLEGAL_STATE", "Couldn't calculate offsets"})
            => _readPackets.isNull
    /\ ~_readPackets.isNull => ~OffsetsMissing(_readPackets.packets)
    /\ (last.op = "readAllItems" /\ last.jobs > 0) =>
            (~_readPackets.isNull /\ ~OffsetsMissing(_readPackets.packets))

====
